---- MODULE Spec2Model ----
(***************************************************************************)
(* A model of the resume screening pipeline: the LLM response handling of  *)
(* utils/preprocessing.py and utils/scoring.py, the pre-screener, the      *)
(* ranker's score blending, and the session state driven by ui/tabs.py.    *)
(***************************************************************************)
EXTENDS Integers, Sequences, FiniteSets, TLC

VARIABLES
    fn,               \* which function a function-level specification applies
    arg,              \* its inputs
    ret,              \* its result, Pending until it has been applied
    parsed_resumes,   \* st.session_state.parsed_resumes
    resume_texts,     \* st.session_state.resume_texts (name -> original text)
    candidates_df,    \* st.session_state.candidates_df (NoneValue or a table)
    matched_results,  \* st.session_state.matched_results (NoneValue or a list)
    last_pass         \* what the most recent handler run did (observation only)

vars == <<fn, arg, ret, parsed_resumes, resume_texts, candidates_df,
          matched_results, last_pass>>

sessionVars == <<parsed_resumes, resume_texts, candidates_df, matched_results,
                 last_pass>>

callVars == <<fn, arg, ret>>

----------------------------------------------------------------------------
(* Python / JSON values.  Every kind of value has its own field name, so   *)
(* that two values of different kinds are always comparable.               *)

NoneValue == [none |-> TRUE]
Absent == [absent |-> TRUE]
Num(n) == [num |-> n]
Str(s) == [str |-> s]
Bool(b) == [bool |-> b]
Pending == [pending |-> TRUE]
Raised(e) == [raised |-> e]

IsNum(v) == DOMAIN v = {"num"}
IsStr(v) == DOMAIN v = {"str"}
IsBool(v) == DOMAIN v = {"bool"}
IsRaised(v) == DOMAIN v = {"raised"}

\* Python truthiness of a value (None, "", 0 and False are falsy).
Truthy(v) ==
    IF v = NoneValue \/ v = Absent THEN FALSE
    ELSE IF IsStr(v) THEN v.str # ""
    ELSE IF IsNum(v) THEN v.num # 0
    ELSE IF IsBool(v) THEN v.bool
    ELSE TRUE

\* dict.get(key, default): Absent stands for a key the dict does not hold.
Get(v, default) == IF v = Absent THEN default ELSE v

Min(a, b) == IF a <= b THEN a ELSE b
Max(a, b) == IF a >= b THEN a ELSE b

----------------------------------------------------------------------------
(* LLM response text as a sequence of tokens: the four brackets, prose     *)
(* words, JSON scalars, and the member list of a JSON object.              *)

LB == [c |-> "{"]
RB == [c |-> "}"]
LSQ == [c |-> "["]
RSQ == [c |-> "]"]
Word == [w |-> "Sure"]
Lit == [lit |-> 1]
Mem(m) == [mem |-> m]

IsMem(t) == DOMAIN t = {"mem"}
IsLit(t) == DOMAIN t = {"lit"}

\* str.find(c): 0-based index of the first c, -1 when there is none.
Find(s, c) ==
    IF \E i \in 1..Len(s) : s[i] = c
    THEN (CHOOSE i \in 1..Len(s) : s[i] = c /\ \A j \in 1..(i-1) : s[j] # c) - 1
    ELSE -1

\* A scan that stops at the first c instead of the last.
RFindFirst(s, c) == Find(s, c)

\* str.rfind(c): 0-based index of the last c, -1 when there is none.
RFind(s, c) ==
    IF \E i \in 1..Len(s) : s[i] = c
    THEN (CHOOSE i \in 1..Len(s) : s[i] = c /\ \A j \in (i+1)..Len(s) : s[j] # c) - 1
    ELSE -1

\* s[a:b] for 0 <= a, 0 <= b (empty when b <= a).
Slice(s, a, b) == SubSeq(s, a + 1, Min(b, Len(s)))

\* json.loads on a token sequence: [ok |-> TRUE, v |-> value] or [ok |-> FALSE].
\* value ::= Lit | { (Mem | value)* } | [ value* ]
RECURSIVE ParseValue(_, _), ParseItems(_, _, _, _)
ParseValue(s, i) ==
    IF i > Len(s) THEN [ok |-> FALSE]
    ELSE IF IsLit(s[i]) THEN [ok |-> TRUE, v |-> s[i], next |-> i + 1]
    ELSE IF s[i] = LB THEN ParseItems(s, i + 1, RB, <<>>)
    ELSE IF s[i] = LSQ THEN ParseItems(s, i + 1, RSQ, <<>>)
    ELSE [ok |-> FALSE]
ParseItems(s, i, closer, acc) ==
    IF i > Len(s) THEN [ok |-> FALSE]
    ELSE IF s[i] = closer
    THEN [ok |-> TRUE,
          v |-> IF closer = RB THEN [obj |-> acc] ELSE [arr |-> acc],
          next |-> i + 1]
    ELSE IF closer = RB /\ IsMem(s[i])
    THEN ParseItems(s, i + 1, closer, Append(acc, s[i]))
    ELSE LET item == ParseValue(s, i)
         IN IF item.ok
            THEN ParseItems(s, item.next, closer, Append(acc, item.v))
            ELSE [ok |-> FALSE]

JsonLoads(s) ==
    LET r == ParseValue(s, 1)
    IN IF r.ok /\ r.next = Len(s) + 1 THEN [ok |-> TRUE, v |-> r.v]
       ELSE [ok |-> FALSE]

IsObj(v) == DOMAIN v = {"obj"}
IsArr(v) == DOMAIN v = {"arr"}

\* The brace extraction of parse_resume_with_groq and extract_jd_requirements:
\* json_start = find('{'), json_end = rfind('}') + 1, and the slice between
\* them when json_start != -1 and json_end > json_start.
ExtractObjectText(response) ==
    LET json_start == Find(response, LB)
        json_end == RFind(response, RB) + 1
    IN IF json_start # -1 /\ json_end > json_start
       THEN [found |-> TRUE, text |-> Slice(response, json_start, json_end)]
       ELSE [found |-> FALSE]

\* The bracket extraction of match_candidates_with_jd and
\* generate_interview_questions: the slice is taken whenever json_start != -1.
ExtractArrayText(response) ==
    LET json_start == Find(response, LSQ)
        json_end == RFind(response, RSQ) + 1
    IN IF json_start # -1
       THEN [found |-> TRUE, text |-> Slice(response, json_start, json_end)]
       ELSE [found |-> FALSE]

----------------------------------------------------------------------------
(* The session state after construction (app.py).                          *)

EmptyMap == [n \in {} |-> NoneValue]

SessionInit ==
    /\ parsed_resumes = <<>>
    /\ resume_texts = EmptyMap
    /\ candidates_df = NoneValue
    /\ matched_results = NoneValue
    /\ last_pass = [stage |-> "none"]

SeqsUpTo(S, n) == UNION {[1..k -> S] : k \in 0..n}

----------------------------------------------------------------------------
(* Bracket extraction as a function of the response text.                  *)

MaxProse == 1
MaxJsonLen == 4

SampleMem == Mem([name |-> Str("A")])
JsonTokens == {LB, RB, LSQ, RSQ, Lit, SampleMem}
ProseTokens == {Word, LB, RB, LSQ, RSQ}
Prose == SeqsUpTo(ProseTokens, MaxProse)

\* The well-formed JSON texts of the expected shape, up to MaxJsonLen tokens.
JsonBodies(kind) ==
    {s \in SeqsUpTo(JsonTokens, MaxJsonLen) :
        /\ JsonLoads(s).ok
        /\ IF kind = "object" THEN IsObj(JsonLoads(s).v) ELSE IsArr(JsonLoads(s).v)}

Opener(kind) == IF kind = "object" THEN LB ELSE LSQ
Closer(kind) == IF kind = "object" THEN RB ELSE RSQ

ExtractJson(kind, response) ==
    LET e == IF kind = "object" THEN ExtractObjectText(response)
             ELSE ExtractArrayText(response)
    IN IF e.found
       THEN [found |-> TRUE, text |-> e.text, loaded |-> JsonLoads(e.text)]
       ELSE [found |-> FALSE]

InitJson ==
    /\ fn = "extract"
    /\ \E kind \in {"object", "array"} :
         \E pre \in Prose, post \in Prose, body \in JsonBodies(kind) :
            arg = [kind |-> kind, pre |-> pre, body |-> body, post |-> post]
    /\ ret = Pending
    /\ SessionInit

ApplyExtract ==
    /\ fn = "extract"
    /\ ret = Pending
    /\ ret' = ExtractJson(arg.kind, arg.pre \o arg.body \o arg.post)
    /\ UNCHANGED <<fn, arg, sessionVars>>

NextJson == ApplyExtract

SpecJson == InitJson /\ [][NextJson]_vars

HasToken(s, t) == \E i \in 1..Len(s) : s[i] = t

\* C5 as stated: whatever prose surrounds the embedded JSON value, the
\* extraction recovers exactly that value.
C5_AnyProse ==
    (fn = "extract" /\ ret # Pending) =>
        (ret.found /\ ret.text = arg.body)

\* C5 amended: the extraction recovers exactly the embedded JSON value if and
\* only if the prose before it holds no opening bracket of the expected kind
\* and the prose after it holds no closing bracket of that kind; the recovered
\* text then loads as that JSON value.
C5_CleanProse ==
    (fn = "extract" /\ ret # Pending) =>
        LET clean == /\ ~HasToken(arg.pre, Opener(arg.kind))
                     /\ ~HasToken(arg.post, Closer(arg.kind))
        IN /\ clean <=> (ret.found /\ ret.text = arg.body)
           /\ clean => (ret.loaded = JsonLoads(arg.body) /\ ret.loaded.ok)

\* A response with prose on both sides of a nested JSON value was extracted.
C5_Witness ==
    /\ fn = "extract" /\ ret # Pending
    /\ arg.pre # <<>> /\ arg.post # <<>>
    /\ ~HasToken(arg.pre, Opener(arg.kind))
    /\ ~HasToken(arg.post, Closer(arg.kind))
    /\ Len(arg.body) = 4
    /\ ret.found /\ ret.text = arg.body

----------------------------------------------------------------------------
(* Strings whose characters matter (tech stacks, skills) are sequences of  *)
(* one-character strings, wrapped as [chars |-> ...].                      *)

Chars(cs) == [chars |-> cs]
IsChars(v) == DOMAIN v = {"chars"}
NaN == [nan |-> TRUE]
List(xs) == [list |-> xs]
IsList(v) == DOMAIN v = {"list"}

UpperAlphabet == <<"A","B","C","D","E","F","G","H","I","J","K","L","M",
                   "N","O","P","Q","R","S","T","U","V","W","X","Y","Z">>
LowerAlphabet == <<"a","b","c","d","e","f","g","h","i","j","k","l","m",
                   "n","o","p","q","r","s","t","u","v","w","x","y","z">>

OtherChars == {",", " ", "-", ".", "+", "#"}

LowerMap ==
    [c \in {UpperAlphabet[i] : i \in 1..26} \cup {LowerAlphabet[i] : i \in 1..26}
            \cup OtherChars |->
        IF \E i \in 1..26 : UpperAlphabet[i] = c
        THEN LowerAlphabet[CHOOSE i \in 1..26 : UpperAlphabet[i] = c]
        ELSE c]

LowerChar(c) == LowerMap[c]

\* str.lower()
Lower(cs) == [i \in 1..Len(cs) |-> LowerChar(cs[i])]

\* needle in hay
Contains(hay, needle) ==
    \E i \in 0..(Len(hay) - Len(needle)) : SubSeq(hay, i + 1, i + Len(needle)) = needle

s_scikit_learn == <<"s","c","i","k","i","t","-","l","e","a","r","n">>
s_sklearn == <<"s","k","l","e","a","r","n">>
s_scikit == <<"s","c","i","k","i","t">>
s_tensorflow == <<"t","e","n","s","o","r","f","l","o","w">>
s_tensor == <<"t","e","n","s","o","r">>
s_pytorch == <<"p","y","t","o","r","c","h">>
s_torch == <<"t","o","r","c","h">>
s_numpy == <<"n","u","m","p","y">>
s_np == <<"n","p">>

----------------------------------------------------------------------------
(* Candidate tables.  A record (one dict of parsed_resumes) has a fixed    *)
(* set of fields in the model; Absent marks a key the dict does not hold.  *)
(* pd.DataFrame(records) has one column per key some record holds, and NaN *)
(* where a record lacks the key.  A row keeps its index label idx.         *)

Columns(records) ==
    {c \in {"name", "email", "phone", "experience_years", "tech_stack"} :
        \E i \in 1..Len(records) :
            c \in DOMAIN records[i] /\ records[i][c] # Absent}

DataFrame(records) ==
    LET cols == Columns(records)
    IN [cols |-> cols,
        rows |-> [i \in 1..Len(records) |->
                    [f \in DOMAIN records[i] \cup {"idx"} |->
                        IF f = "idx" THEN i - 1
                        ELSE IF f \in cols /\ records[i][f] = Absent THEN NaN
                        ELSE records[i][f]]]]

\* A test for None in place of DataFrame.empty.
DfIsNone(df) == df = NoneValue

\* DataFrame.empty: no rows or no columns.
DfEmpty(df) == Len(df.rows) = 0 \/ df.cols = {}

\* pd.isna on a scalar
IsNa(v) == v = NaN \/ v = NoneValue

\* Boolean indexing df[mask]: the rows at which keep holds, in order.
SelectRows(rows, keep(_)) == SelectSeq(rows, keep)

\* Strings that pd.to_numeric parses, with their values.
NumericStrings == [s \in {"5"} |-> 5]

\* pd.to_numeric(..., errors='coerce') on one cell.
ToNumeric(v) ==
    IF IsNum(v) THEN v
    ELSE IF IsBool(v) THEN Num(IF v.bool THEN 1 ELSE 0)
    ELSE IF IsStr(v) /\ v.str \in DOMAIN NumericStrings THEN Num(NumericStrings[v.str])
    ELSE NaN

----------------------------------------------------------------------------
(* auto_pre_screen_candidates                                              *)

\* matched_skills of has_required_skills for one tech stack.
matched_skills_any(tech_stack_lower, required_skills) == Len(required_skills)

\* The chain of lines 55-65 with "if" in place of each "elif": a skill that
\* is in the stack and has a variation in it is counted for both.
RECURSIVE matched_skills_no_elif(_, _)
matched_skills_no_elif(tech_stack_lower, required_skills) ==
    IF required_skills = <<>> THEN 0
    ELSE LET skill_lower == Lower(Head(required_skills).chars)
             direct == Contains(tech_stack_lower, skill_lower)
             variation ==
                \/ /\ skill_lower = s_scikit_learn
                   /\ \/ Contains(tech_stack_lower, s_sklearn)
                      \/ Contains(tech_stack_lower, s_scikit)
                \/ skill_lower = s_tensorflow /\ Contains(tech_stack_lower, s_tensor)
                \/ skill_lower = s_pytorch /\ Contains(tech_stack_lower, s_torch)
                \/ skill_lower = s_numpy /\ Contains(tech_stack_lower, s_np)
         IN (IF direct THEN 1 ELSE 0) + (IF variation THEN 1 ELSE 0)
                + matched_skills_no_elif(tech_stack_lower, Tail(required_skills))

RECURSIVE matched_skills(_, _)
matched_skills(tech_stack_lower, required_skills) ==
    IF required_skills = <<>> THEN 0
    ELSE LET skill_lower == Lower(Head(required_skills).chars)
             hit ==
                \/ Contains(tech_stack_lower, skill_lower)
                \/ /\ skill_lower = s_scikit_learn
                   /\ \/ Contains(tech_stack_lower, s_sklearn)
                      \/ Contains(tech_stack_lower, s_scikit)
                \/ skill_lower = s_tensorflow /\ Contains(tech_stack_lower, s_tensor)
                \/ skill_lower = s_pytorch /\ Contains(tech_stack_lower, s_torch)
                \/ skill_lower = s_numpy /\ Contains(tech_stack_lower, s_np)
         IN (IF hit THEN 1 ELSE 0) + matched_skills(tech_stack_lower, Tail(required_skills))

\* A threshold of 50% instead of 30%.
SkillThresholdHalf(matched, n) == 10 * matched >= Max(10, 5 * n)

\* matched_skills >= max(1, len(required_skills) * 0.3), in tenths.
SkillThresholdMet(matched, n) == 10 * matched >= Max(10, 3 * n)

has_required_skills(tech_stack, required_skills) ==
    IF IsNa(tech_stack) THEN FALSE
    ELSE SkillThresholdMet(matched_skills(Lower(tech_stack.chars), required_skills),
                           Len(required_skills))

\* The experience stage (lines 29-39): [df, summary] after it, or Raised.
ExperienceStageNoCoerce(df, jd_requirements) == [df |-> df, summary |-> <<>>]

ExperienceStage(df, jd_requirements) ==
    LET min_exp == Get(jd_requirements.minimum_experience_years, Num(0))
    IN IF ~(IsNum(min_exp) \/ IsBool(min_exp)) THEN Raised("TypeError")
       ELSE IF ToNumeric(min_exp).num <= 0 THEN [df |-> df, summary |-> <<>>]
       ELSE IF "experience_years" \notin df.cols
       THEN [df |-> df, summary |-> <<>>]            \* KeyError, swallowed
       ELSE LET coerced == [i \in 1..Len(df.rows) |->
                              [df.rows[i] EXCEPT
                                  !.experience_years = ToNumeric(@)]]
                keep(row) == /\ row.experience_years # NaN
                             /\ row.experience_years.num >= ToNumeric(min_exp).num
                kept == SelectRows(coerced, keep)
            IN [df |-> [cols |-> df.cols, rows |-> kept],
                summary |-> <<[stage |-> "experience",
                               after |-> Len(kept), before |-> Len(coerced)]>>]

\* The skill stage (lines 41-73).
SkillStage(df, jd_requirements) ==
    LET required_skills == Get(jd_requirements.required_technical_skills, List(<<>>))
    IN IF ~Truthy(required_skills) \/ required_skills = List(<<>>)
       THEN [df |-> df, summary |-> <<>>]
       ELSE IF "tech_stack" \notin df.cols THEN Raised("KeyError")
       ELSE LET keep(row) == has_required_skills(row.tech_stack, required_skills.list)
                kept == SelectRows(df.rows, keep)
            IN [df |-> [cols |-> df.cols, rows |-> kept],
                summary |-> <<[stage |-> "skills",
                               after |-> Len(kept), before |-> Len(df.rows)]>>]

\* Line 23 without the test for a requirement record that is None.
auto_pre_screen_no_null_guard(df, jd_requirements) ==
    IF df = NoneValue THEN [df |-> df, summary |-> <<>>]
    ELSE IF DfEmpty(df) THEN [df |-> df, summary |-> <<>>]
    ELSE IF jd_requirements = NoneValue THEN Raised("AttributeError")
    ELSE LET e == ExperienceStage(df, jd_requirements)
         IN IF IsRaised(e) THEN e
            ELSE LET k == SkillStage(e.df, jd_requirements)
                 IN IF IsRaised(k) THEN k
                    ELSE [df |-> k.df, summary |-> e.summary \o k.summary]

auto_pre_screen_candidates(df, jd_requirements) ==
    IF df = NoneValue \/ jd_requirements = NoneValue THEN [df |-> df, summary |-> <<>>]
    ELSE IF DfEmpty(df) THEN [df |-> df, summary |-> <<>>]
    ELSE LET e == ExperienceStage(df, jd_requirements)
         IN IF IsRaised(e) THEN e
            ELSE LET k == SkillStage(e.df, jd_requirements)
                 IN IF IsRaised(k) THEN k
                    ELSE [df |-> k.df, summary |-> e.summary \o k.summary]

----------------------------------------------------------------------------
(* auto_pre_screen_candidates as a function of its inputs.                 *)

MaxRows == 2
MaxSkills == 4

s_Python == <<"P","y","t","h","o","n">>
s_NumPy == <<"N","u","m","P","y">>
s_stack_python == <<"p","y","t","h","o","n",","," ","A","W","S">>
s_stack_np == <<"S","N","P","E">>

ExperienceValues == {Absent, Num(2), Str("5"), Str("five")}
TechStackValues == {Absent, Chars(s_stack_python), Chars(s_stack_np)}

\* The required-skill lists: k entries "Python" followed by m entries "NumPy",
\* k + m <= MaxSkills (the order of the entries does not enter the count).
SkillList(k, m) ==
    [i \in 1..(k + m) |-> IF i <= k THEN Chars(s_Python) ELSE Chars(s_NumPy)]

SkillLists ==
    {SkillList(p[1], p[2]) :
        p \in {q \in (0..MaxSkills) \X (0..MaxSkills) : q[1] + q[2] <= MaxSkills}}

MinExpValues == {Absent, Num(-1), Num(3), NoneValue}

ScreenRecords ==
    [experience_years : ExperienceValues, tech_stack : TechStackValues]

InitScreen ==
    /\ fn = "screen"
    /\ \E records \in SeqsUpTo(ScreenRecords, MaxRows),
          min_exp \in MinExpValues,
          skills \in SkillLists :
            arg = [df |-> DataFrame(records),
                   jd |-> [minimum_experience_years |-> min_exp,
                           required_technical_skills |-> List(skills)]]
    /\ ret = Pending
    /\ SessionInit

ApplyScreen ==
    /\ fn = "screen"
    /\ ret = Pending
    /\ ret' = auto_pre_screen_candidates(arg.df, arg.jd)
    /\ UNCHANGED <<fn, arg, sessionVars>>

NextScreen == ApplyScreen

SpecScreen == InitScreen /\ [][NextScreen]_vars

Screened == fn = "screen" /\ ret # Pending /\ ~IsRaised(ret)

IdxSeq(rows) == [i \in 1..Len(rows) |-> rows[i].idx]
IdxSet(rows) == {rows[i].idx : i \in 1..Len(rows)}
RowAt(rows, idx) == rows[CHOOSE i \in 1..Len(rows) : rows[i].idx = idx]

SummaryLines(stage) ==
    {i \in 1..Len(ret.summary) : ret.summary[i].stage = stage}

\* The experience stage removed nobody (it did not run, or it kept every row).
ExperienceKeptAll ==
    \A i \in SummaryLines("experience") :
        ret.summary[i].after = ret.summary[i].before

ArgSkills == arg.jd.required_technical_skills.list

MatchedCount(row) ==
    IF IsNa(row.tech_stack) \/ row.tech_stack = Absent THEN 0
    ELSE matched_skills(Lower(row.tech_stack.chars), ArgSkills)

MeetsSkillThreshold(row) ==
    /\ MatchedCount(row) >= 1
    /\ 10 * MatchedCount(row) >= 3 * Len(ArgSkills)

\* C6: with n > 0 required skills a candidate passes the skill filter iff its
\* matched-skill count is >= max(1, 0.3 n); with an empty list the skill
\* filter is skipped and removes no candidate.
C6_SkillThreshold ==
    (Screened /\ ~DfEmpty(arg.df)) =>
        IF ArgSkills # <<>>
        THEN \A i \in 1..Len(arg.df.rows) :
                LET row == arg.df.rows[i]
                IN /\ row.idx \in IdxSet(ret.df.rows) => MeetsSkillThreshold(row)
                   /\ ExperienceKeptAll =>
                        (row.idx \in IdxSet(ret.df.rows) <=> MeetsSkillThreshold(row))
        ELSE /\ SummaryLines("skills") = {}
             /\ ExperienceKeptAll => IdxSeq(ret.df.rows) = IdxSeq(arg.df.rows)

\* Three required skills: a candidate matching exactly one passed and a
\* candidate matching none was removed by the skill filter.
C6_Witness ==
    /\ Screened
    /\ Len(ArgSkills) = 3
    /\ ExperienceKeptAll
    /\ \E i, j \in 1..Len(arg.df.rows) :
          /\ MatchedCount(arg.df.rows[i]) = 1
          /\ arg.df.rows[i].idx \in IdxSet(ret.df.rows)
          /\ MatchedCount(arg.df.rows[j]) = 0
          /\ arg.df.rows[j].idx \notin IdxSet(ret.df.rows)

ArgMinExp == Get(arg.jd.minimum_experience_years, Num(0))

ExperienceActive == IsNum(ArgMinExp) /\ ArgMinExp.num > 0

\* experience_years coerces to a number >= minimum_experience_years
MeetsExperience(row) ==
    /\ row.experience_years # Absent
    /\ ToNumeric(row.experience_years) # NaN
    /\ ToNumeric(row.experience_years).num >= ArgMinExp.num

\* C7: with minimum_experience_years > 0 the experience filter keeps exactly
\* the candidates whose experience_years coerces to a number >= the minimum
\* (so a non-numeric or missing experience_years is excluded); with a minimum
\* <= 0 the filter is skipped and removes no candidate.
C7_ExperienceFilter ==
    (Screened /\ ~DfEmpty(arg.df)) =>
        IF ExperienceActive
        THEN /\ \A i \in 1..Len(arg.df.rows) :
                    arg.df.rows[i].idx \in IdxSet(ret.df.rows)
                        => MeetsExperience(arg.df.rows[i])
             /\ ArgSkills = <<>> =>
                    IdxSet(ret.df.rows) =
                        {arg.df.rows[i].idx : i \in
                            {k \in 1..Len(arg.df.rows) : MeetsExperience(arg.df.rows[k])}}
        ELSE /\ SummaryLines("experience") = {}
             /\ ArgSkills = <<>> => IdxSeq(ret.df.rows) = IdxSeq(arg.df.rows)

PassesActiveFilters(row) ==
    /\ ExperienceActive => MeetsExperience(row)
    /\ ArgSkills # <<>> => MeetsSkillThreshold(row)

\* C8: the returned table is exactly the sub-sequence of the input candidates
\* that pass every active filter (experience and skills), in their original
\* order; the skill filter sees only the candidates the experience filter
\* kept; no candidate outside the input appears.
C8_SequentialAnd ==
    (Screened /\ ~DfEmpty(arg.df)) =>
        /\ IdxSeq(ret.df.rows) = IdxSeq(SelectSeq(arg.df.rows, PassesActiveFilters))
        /\ \A i \in SummaryLines("skills"), j \in SummaryLines("experience") :
              ret.summary[i].before = ret.summary[j].after

----------------------------------------------------------------------------
(* Resume text.  A text is a sequence of lexemes; what each regular        *)
(* expression of preprocessing.py does on a lexeme is tabulated from the   *)
(* patterns themselves.                                                    *)

EMAIL_MASKED == "[EMAIL_MASKED]"
PHONE_MASKED == "[PHONE_MASKED]"

\* A run of 5995 characters of plain words, matched by none of the patterns.
Filler == "lorem ipsum"
\* A stretch of job-description prose of 995 characters.
JobFiller == "dolor sit amet"

Lexemes == {"python", "bob@x.io", "bob@localhost", "555-123-4567",
            "+1 555-123-4567", "(555) 123-4567", Filler}

\* len() of a lexeme; the lexemes of a text are joined by single spaces.
LexemeLength(lx) ==
    CASE lx = "python" -> 6
      [] lx = "aws" -> 3
      [] lx = "bob@x.io" -> 8
      [] lx = "bob@localhost" -> 13
      [] lx = "555-123-4567" -> 12
      [] lx = "+1 555-123-4567" -> 15
      [] lx = "(555) 123-4567" -> 14
      [] lx = EMAIL_MASKED -> 14
      [] lx = PHONE_MASKED -> 14
      [] lx = Filler -> 5995
      [] lx = JobFiller -> 995

\* text[:budget] from the lexeme at index i, which starts at character
\* position start: the lexemes that begin before the budget, each with the
\* number of its characters that are kept.
RECURSIVE TruncateFrom(_, _, _, _)
TruncateFrom(text, i, start, budget) ==
    IF i > Len(text) \/ start >= budget THEN <<>>
    ELSE <<[lx |-> text[i], keep |-> Min(LexemeLength(text[i]), budget - start)]>>
         \o TruncateFrom(text, i + 1, start + LexemeLength(text[i]) + 1, budget)

Truncate(text, budget) == TruncateFrom(text, 1, 0, budget)

\* email_pattern (line 23) matches the whole lexeme.
EmailPatternMatches(lx) == lx = "bob@x.io"

\* phone_pattern (line 29) matches the whole lexeme.
PhonePatternMatches(lx) == lx \in {"555-123-4567", "+1 555-123-4567", "(555) 123-4567"}

\* re.findall with the one capturing group of phone_pattern yields that group:
\* the optional country-code prefix, "" when it did not take part.
PhoneGroup(lx) == IF lx = "+1 555-123-4567" THEN "+1 " ELSE ""

\* \S+@\S+ (line 12)
MaskEmailMatches(lx) == lx \in {"bob@x.io", "bob@localhost"}

\* \+?\d[\d -]{8,12}\d (line 13)
MaskPhoneMatches(lx) == lx \in {"555-123-4567", "+1 555-123-4567"}

mask_pii(text) ==
    [i \in 1..Len(text) |->
        IF MaskEmailMatches(text[i]) THEN EMAIL_MASKED
        ELSE IF MaskPhoneMatches(text[i]) THEN PHONE_MASKED
        ELSE text[i]]

\* The email pattern run over the redacted text.
email_extracted_after_masking(resume_text) ==
    LET email_matches == SelectSeq(mask_pii(resume_text), EmailPatternMatches)
    IN IF email_matches # <<>> THEN Str(email_matches[1]) ELSE NoneValue

\* email_extracted (lines 19-26): the first match, or None.
email_extracted(resume_text) ==
    LET email_matches == SelectSeq(resume_text, EmailPatternMatches)
    IN IF email_matches # <<>> THEN Str(email_matches[1]) ELSE NoneValue

\* phone_extracted (lines 28-32): findall returns strings (the group), never
\* tuples, so the first element is taken as it is.
phone_extracted(resume_text) ==
    LET matched == SelectSeq(resume_text, PhonePatternMatches)
    IN IF matched # <<>> THEN Str(PhoneGroup(matched[1])) ELSE NoneValue

\* The dict json.loads yields for an object: the members it lists, every
\* other key Absent.
NoMembers ==
    [name |-> Absent, email |-> Absent, phone |-> Absent,
     experience_years |-> Absent, tech_stack |-> Absent]

ObjDict(v) ==
    LET mems == SelectSeq(v.obj, IsMem)
    IN IF mems # <<>> THEN mems[1].mem ELSE NoMembers

\* Lines 86-91 without the comparison with the string 'null'.
FillWhenMissingNoNullString(field, extracted) ==
    IF ~Truthy(field) THEN (IF Truthy(extracted) THEN extracted ELSE NoneValue)
    ELSE field

\* Lines 86-91 (masking disabled): the field is replaced when it is falsy or
\* the string 'null'.
FillWhenMissing(field, extracted) ==
    IF ~Truthy(field) \/ field = Str("null")
    THEN (IF Truthy(extracted) THEN extracted ELSE NoneValue)
    ELSE field

\* Lines 81-85 (masking enabled): the field is replaced when something was
\* extracted.
OverrideWhenExtracted(field, extracted) ==
    IF Truthy(extracted) THEN extracted ELSE field

\* An LLM completion either fails (any exception of the client) or returns text.
LlmFailure == [fail |-> TRUE]
LlmText(tokens) == [response |-> tokens]

PromptBudget == 6000

\* The text cut first and redacted afterwards: a lexeme cut at the budget is
\* no longer matched by the redaction patterns.
PromptTextTruncateFirst(resume_text, mask_pii_enabled) ==
    LET cut == Truncate(resume_text, PromptBudget)
    IN [i \in 1..Len(cut) |->
            IF mask_pii_enabled /\ cut[i].keep = LexemeLength(cut[i].lx)
            THEN [lx |-> mask_pii(<<cut[i].lx>>)[1],
                  keep |-> LexemeLength(mask_pii(<<cut[i].lx>>)[1])]
            ELSE cut[i]]

\* processed_text[:6000], the resume text embedded in the prompt.
PromptText(resume_text, mask_pii_enabled) ==
    Truncate(IF mask_pii_enabled THEN mask_pii(resume_text) ELSE resume_text,
             PromptBudget)

\* parse_resume_with_groq: record is parsed_data or None, error tells whether
\* st.error was called, request is the resume text sent to the LLM.
parse_resume_with_groq(llm, resume_text, filename, mask_pii_enabled, upload_date) ==
    LET request == PromptText(resume_text, mask_pii_enabled)
        none(err) == [record |-> NoneValue, error |-> err, request |-> request]
    IN IF llm = LlmFailure THEN none(TRUE)
       ELSE LET e == ExtractObjectText(llm.response)
            IN IF ~e.found THEN none(FALSE)
               ELSE LET loaded == JsonLoads(e.text)
                    IN IF ~loaded.ok THEN none(TRUE)
                       ELSE LET parsed_data == ObjDict(loaded.v)
                                email == IF mask_pii_enabled
                                         THEN OverrideWhenExtracted(parsed_data.email,
                                                  email_extracted(resume_text))
                                         ELSE FillWhenMissing(parsed_data.email,
                                                  email_extracted(resume_text))
                                phone == IF mask_pii_enabled
                                         THEN OverrideWhenExtracted(parsed_data.phone,
                                                  phone_extracted(resume_text))
                                         ELSE FillWhenMissing(parsed_data.phone,
                                                  phone_extracted(resume_text))
                            IN [record |->
                                   [name |-> parsed_data.name,
                                    email |-> email,
                                    phone |-> phone,
                                    experience_years |-> parsed_data.experience_years,
                                    tech_stack |-> parsed_data.tech_stack,
                                    filename |-> filename,
                                    submission_date |-> upload_date],
                                error |-> FALSE,
                                request |-> request]

----------------------------------------------------------------------------
(* calculate_semantic_score: TF-IDF cosine similarity of two texts.        *)
(* Scores and percentages are integers in thousandths (88000 is 88.0).     *)

\* The terms TfidfVectorizer's default tokenizer (lower-cased runs of two or
\* more word characters) finds in a lexeme.
LexemeTokens(lx) ==
    CASE lx = "python" -> <<"python">>
      [] lx = "aws" -> <<"aws">>
      [] lx = "bob@x.io" -> <<"bob", "io">>
      [] lx = "bob@localhost" -> <<"bob", "localhost">>
      [] lx = "555-123-4567" -> <<"555", "123", "4567">>
      [] lx = "+1 555-123-4567" -> <<"555", "123", "4567">>
      [] lx = "(555) 123-4567" -> <<"555", "123", "4567">>
      [] OTHER -> <<>>

RECURSIVE TextTokens(_)
TextTokens(text) ==
    IF text = <<>> THEN <<>>
    ELSE LexemeTokens(Head(text)) \o TextTokens(Tail(text))

TermSet(tokens) == {tokens[i] : i \in 1..Len(tokens)}
TermCount(tokens, t) == Cardinality({i \in 1..Len(tokens) : tokens[i] = t})

RECURSIVE SetSum(_, _)
SetSum(S, f) ==
    IF S = {} THEN 0
    ELSE LET x == CHOOSE y \in S : TRUE
         IN f[x] + SetSum(S \ {x}, f)

\* floor(p * 10^digits / q) for 0 <= p <= q, by long division.
RECURSIVE LongDiv(_, _, _, _)
LongDiv(r, q, digits, acc) ==
    IF digits = 0 THEN acc
    ELSE LongDiv((r * 10) % q, q, digits - 1, acc * 10 + ((r * 10) \div q))

\* The integer nearest to the square root of x, by bisection on lo..hi.
RECURSIVE FloorSqrt(_, _, _)
FloorSqrt(x, lo, hi) ==
    IF lo >= hi THEN lo
    ELSE LET mid == (lo + hi + 1) \div 2
         IN IF mid * mid <= x THEN FloorSqrt(x, mid, hi)
            ELSE FloorSqrt(x, lo, mid - 1)
RoundSqrt(x) ==
    LET s == FloorSqrt(x, 0, 10000)
    IN IF x - s * s > s THEN s + 1 ELSE s

\* The squared smoothed idf of a term, as a multiple of 1/81: 1 for a term of
\* both documents, (1 + ln(3/2))^2 = 1.9753.. ~ 160/81 for a term of one.
IdfSquared81(t, termsA, termsB) ==
    IF t \in termsA /\ t \in termsB THEN 81 ELSE 160

\* The squared norm of a document's tf-idf vector, times 81.
NormSquared81(tokens, termsA, termsB) ==
    SetSum(TermSet(tokens),
           [t \in TermSet(tokens) |->
               TermCount(tokens, t) * TermCount(tokens, t) * IdfSquared81(t, termsA, termsB)])

\* A score that weighs the first text's norm only.
calculate_semantic_score_one_sided(resume_text, jd_text) ==
    LET a == TextTokens(resume_text)
        b == TextTokens(jd_text)
        shared == TermSet(a) \cap TermSet(b)
        dot == SetSum(shared, [t \in shared |-> TermCount(a, t) * TermCount(b, t)])
        na == NormSquared81(a, TermSet(a), TermSet(b))
    IN IF dot = 0 THEN 0
       ELSE 10 * RoundSqrt(LongDiv(Min(81 * 81 * dot * dot, na * na), na * na, 8, 0))

\* round(cosine_similarity * 100, 2) in thousandths; 0 when the vocabulary is
\* empty (the vectorizer raises) or the texts share no term.
calculate_semantic_score(resume_text, jd_text) ==
    LET a == TextTokens(resume_text)
        b == TextTokens(jd_text)
        shared == TermSet(a) \cap TermSet(b)
        dot == SetSum(shared, [t \in shared |-> TermCount(a, t) * TermCount(b, t)])
        na == NormSquared81(a, TermSet(a), TermSet(b))
        nb == NormSquared81(b, TermSet(a), TermSet(b))
    IN IF TermSet(a) \cup TermSet(b) = {} THEN 0
       ELSE IF dot = 0 THEN 0
       ELSE 10 * RoundSqrt(LongDiv(81 * 81 * dot * dot, na * nb, 8, 0))

----------------------------------------------------------------------------
(* parse_resume_with_groq as a function of the resume text, the masking    *)
(* flag and the LLM's outcome.                                             *)

MaxLexemes == 2

ResumeTexts == SeqsUpTo(Lexemes, MaxLexemes)

LlmEmails == {Absent, NoneValue, Str(""), Str("null"), Str(EMAIL_MASKED), Str("llm@y.org")}
LlmPhones == {Absent, NoneValue, Str(PHONE_MASKED), Str("555-0000")}

StructurerMembers ==
    [name : {Str("A")}, email : LlmEmails, phone : LlmPhones,
     experience_years : {Num(5)}, tech_stack : {Chars(s_stack_python)}]

\* The responses that carry the members m, and those that carry no object.
ResponsesWith(m) ==
    {<<LB, Mem(m), RB>>, <<Word, LB, Mem(m), RB, Word>>}
ResponsesWithout ==
    {<<Word>>, <<LB, Word>>, <<RB, LB>>, <<LB, Word, RB>>}

InitParse ==
    /\ fn = "parse"
    /\ \E resume_text \in ResumeTexts, mask_pii_enabled \in BOOLEAN,
          m \in StructurerMembers :
         \E llm \in {LlmFailure} \cup {LlmText(r) : r \in ResponsesWith(m) \cup ResponsesWithout} :
            arg = [resume_text |-> resume_text, mask_pii_enabled |-> mask_pii_enabled,
                   members |-> m, llm |-> llm]
    /\ ret = Pending
    /\ SessionInit

ApplyParse ==
    /\ fn = "parse"
    /\ ret = Pending
    /\ ret' = parse_resume_with_groq(arg.llm, arg.resume_text, Str("cv.pdf"),
                                     arg.mask_pii_enabled, Str("now"))
    /\ UNCHANGED <<fn, arg, sessionVars>>

NextParse == ApplyParse

SpecParse == InitParse /\ [][NextParse]_vars

\* A record was produced from the members the LLM's JSON carried.
Parsed == fn = "parse" /\ ret # Pending /\ ret.record # NoneValue

IsNull(v) == v = NoneValue \/ v = Absent

\* The first e-mail / phone number the patterns match in the original text.
FirstEmail(text) ==
    IF \E i \in 1..Len(text) : EmailPatternMatches(text[i])
    THEN Str(text[CHOOSE i \in 1..Len(text) :
                    /\ EmailPatternMatches(text[i])
                    /\ \A j \in 1..(i - 1) : ~EmailPatternMatches(text[j])])
    ELSE NoneValue
FirstPhone(text) ==
    IF \E i \in 1..Len(text) : PhonePatternMatches(text[i])
    THEN Str(text[CHOOSE i \in 1..Len(text) :
                    /\ PhonePatternMatches(text[i])
                    /\ \A j \in 1..(i - 1) : ~PhonePatternMatches(text[j])])
    ELSE NoneValue

SameOrBothNull(a, b) == a = b \/ (IsNull(a) /\ IsNull(b))

\* C3: with masking enabled the record's email and phone are the values the
\* regular expressions extract from the original text (first match or null),
\* never the masked placeholder, whatever the LLM returned.
C3_MaskedContactsFromRegex ==
    (Parsed /\ arg.mask_pii_enabled) =>
        /\ SameOrBothNull(ret.record.email, FirstEmail(arg.resume_text))
        /\ SameOrBothNull(ret.record.phone, FirstPhone(arg.resume_text))
        /\ ret.record.email # Str(EMAIL_MASKED)
        /\ ret.record.phone # Str(PHONE_MASKED)

\* C4 as stated: with masking disabled, a field the model returned as anything
\* but null or absent is kept unchanged.
C4_ReplacedOnlyWhenNullOrAbsent ==
    (Parsed /\ ~arg.mask_pii_enabled) =>
        /\ ~IsNull(arg.members.email) => ret.record.email = arg.members.email
        /\ ~IsNull(arg.members.phone) => ret.record.phone = arg.members.phone

\* The model's field counts as missing: absent, null, falsy, or the string 'null'.
CountsAsMissing(v) == IsNull(v) \/ v = Str("") \/ v = Str("null")

\* C4 amended: with masking disabled, the model's email/phone is replaced (by
\* the value the code extracted from the text, else null) exactly when the
\* field is absent, null, an empty string or the literal string 'null'; any
\* other value the model returned is kept unchanged.
C4_ReplacedWhenMissing ==
    (Parsed /\ ~arg.mask_pii_enabled) =>
        /\ IF CountsAsMissing(arg.members.email)
           THEN ret.record.email = FirstEmail(arg.resume_text)
           ELSE ret.record.email = arg.members.email
        /\ IF CountsAsMissing(arg.members.phone)
           THEN ret.record.phone =
                    (IF Truthy(phone_extracted(arg.resume_text))
                     THEN phone_extracted(arg.resume_text) ELSE NoneValue)
           ELSE ret.record.phone = arg.members.phone

\* The model said "null" for the email of a resume that holds one, and gave a
\* phone number of its own: the first was replaced, the second kept.
C4_Witness ==
    /\ Parsed /\ ~arg.mask_pii_enabled
    /\ arg.members.email = Str("null")
    /\ ret.record.email = Str("bob@x.io")
    /\ arg.members.phone = Str("555-0000")
    /\ ret.record.phone = Str("555-0000")

----------------------------------------------------------------------------
(* match_candidates_with_jd                                                *)

\* round(x, 2) for x given in ten-thousandths, result in thousandths.  At an
\* exact half the direction depends on the floating-point representation of
\* x: tie (0 or 1) is the direction taken.
Round2(x, tie) ==
    LET q == x \div 100
        r == x % 100
    IN 10 * (IF r < 50 THEN q ELSE IF r > 50 THEN q + 1 ELSE q + tie)

\* The weights of the two scores exchanged.
BlendSwapped(llm_score, semantic_score, tie) ==
    Round2(3 * llm_score + 7 * semantic_score, tie)

\* Weights that do not add up to one.
BlendNotConvex(llm_score, semantic_score, tie) ==
    Round2(7 * llm_score + 7 * semantic_score, tie)

\* round(llm_score * 0.7 + semantic_score * 0.3, 2)
Blend(llm_score, semantic_score, tie) ==
    Round2(7 * llm_score + 3 * semantic_score, tie)

\* The key under which dict.get / dict[...] = looks a name up.
NameKey(name) == Get(name, Str(""))

\* resume_texts.get(candidate_name, '')
StoredText(texts, name) ==
    IF NameKey(name) \in DOMAIN texts THEN texts[NameKey(name)] ELSE <<>>

NoRankMembers == [rank |-> Absent, name |-> Absent, match_percentage |-> Absent]

\* Lines 141-153 with the blended score written over match_percentage.
ScoreResultOverwrites(result, texts, job_description, tie) ==
    IF ~IsObj(result) THEN Raised("AttributeError")
    ELSE LET mems == SelectSeq(result.obj, IsMem)
             d == IF mems # <<>> THEN mems[1].mem ELSE NoRankMembers
             resume_text == StoredText(texts, d.name)
             semantic_score == IF resume_text # <<>>
                               THEN calculate_semantic_score(resume_text, job_description)
                               ELSE 0
             llm_score == Get(d.match_percentage, Num(0))
         IN IF resume_text # <<>> /\ ~IsNum(llm_score) THEN Raised("TypeError")
            ELSE LET final_score == IF resume_text # <<>>
                                    THEN Num(Blend(llm_score.num, semantic_score, tie))
                                    ELSE llm_score
                 IN [rank |-> d.rank, name |-> d.name,
                     match_percentage |-> final_score,
                     semantic_score |-> Num(semantic_score),
                     final_score |-> final_score]

\* Lines 141-153 with a result that cannot be scored left as it is instead
\* of raising.
ScoreResultTolerant(result, texts, job_description, tie) ==
    IF ~IsObj(result) THEN [rank |-> Absent, name |-> Absent, match_percentage |-> Absent]
    ELSE LET mems == SelectSeq(result.obj, IsMem)
             d == IF mems # <<>> THEN mems[1].mem ELSE NoRankMembers
             resume_text == StoredText(texts, d.name)
         IN IF resume_text # <<>>
            THEN LET semantic_score == calculate_semantic_score(resume_text, job_description)
                     llm_score == Get(d.match_percentage, Num(0))
                 IN IF ~IsNum(llm_score)
                    THEN [rank |-> d.rank, name |-> d.name,
                          match_percentage |-> d.match_percentage]
                    ELSE [rank |-> d.rank, name |-> d.name,
                          match_percentage |-> d.match_percentage,
                          semantic_score |-> Num(semantic_score),
                          final_score |-> Num(Blend(llm_score.num, semantic_score, tie))]
            ELSE [rank |-> d.rank, name |-> d.name,
                  match_percentage |-> d.match_percentage,
                  semantic_score |-> Num(0),
                  final_score |-> Get(d.match_percentage, Num(0))]

\* Lines 141-153 for one result; Raised when an operation on it raises.
ScoreResult(result, texts, job_description, tie) ==
    IF ~IsObj(result) THEN Raised("AttributeError")
    ELSE LET mems == SelectSeq(result.obj, IsMem)
             d == IF mems # <<>> THEN mems[1].mem ELSE NoRankMembers
             resume_text == StoredText(texts, d.name)
         IN IF resume_text # <<>>
            THEN LET semantic_score == calculate_semantic_score(resume_text, job_description)
                     llm_score == Get(d.match_percentage, Num(0))
                 IN IF ~IsNum(llm_score) THEN Raised("TypeError")
                    ELSE [rank |-> d.rank, name |-> d.name,
                          match_percentage |-> d.match_percentage,
                          semantic_score |-> Num(semantic_score),
                          final_score |-> Num(Blend(llm_score.num, semantic_score, tie))]
            ELSE [rank |-> d.rank, name |-> d.name,
                  match_percentage |-> d.match_percentage,
                  semantic_score |-> Num(0),
                  final_score |-> Get(d.match_percentage, Num(0))]

\* row.get(f, 'N/A'): Absent where the table has no such column.
Field(row, f) == IF f \in DOMAIN row THEN row[f] ELSE Absent

\* One entry of candidates_summary (lines 83-92).
CandidateSummary(row) ==
    [number |-> row.idx + 1, name |-> Field(row, "name"),
     email |-> Field(row, "email"),
     experience_years |-> Field(row, "experience_years"),
     tech_stack |-> Field(row, "tech_stack")]

RankRequest(df, job_description) ==
    [kind |-> "rank",
     candidates |-> [i \in 1..Len(df.rows) |->
                        CandidateSummary(df.rows[i])],
     job_description |-> job_description]

\* match_candidates_with_jd: the list it returns, the LLM requests it issued
\* and whether it called st.error.  ties[i] is the rounding direction for the
\* i-th result.
match_candidates_with_jd(llm, df, job_description, texts, ties) ==
    IF DfEmpty(df)
    THEN [results |-> <<>>, requests |-> <<>>, error |-> FALSE]
    ELSE LET requests == <<RankRequest(df, job_description)>>
             failed == [results |-> <<>>, requests |-> requests, error |-> TRUE]
         IN IF llm = LlmFailure THEN failed
            ELSE LET e == ExtractArrayText(llm.response)
                 IN IF ~e.found
                    THEN [results |-> <<>>, requests |-> requests, error |-> FALSE]
                    ELSE LET loaded == JsonLoads(e.text)
                         IN IF ~loaded.ok THEN failed
                            ELSE LET scored ==
                                        [i \in 1..Len(loaded.v.arr) |->
                                            ScoreResult(loaded.v.arr[i], texts,
                                                        job_description, ties[i])]
                                 IN IF \E i \in 1..Len(scored) : IsRaised(scored[i])
                                    THEN failed
                                    ELSE [results |-> scored, requests |-> requests,
                                          error |-> FALSE]

----------------------------------------------------------------------------
(* The ranker as a function of the LLM response, the candidate table, the  *)
(* job description and the stored resume texts.                            *)

MaxResults == 2

\* Stored resume texts are never empty: the upload handlers store a text
\* only under "if text:".
RankTexts == {<<"python">>, <<"bob@x.io">>}
RankStores == {EmptyMap} \cup {[k \in {Str("A")} |-> t] : t \in RankTexts}
RankJobs == {<<"python">>, <<"python", "aws">>}

\* match_percentage as the response may carry it: missing, a whole
\* percentage, one that puts the blend at an exact half, one with three
\* decimals, a string.
MatchPercentages == {Absent, Num(88000), Num(88020), Num(57979), Str("88")}
RankMembers ==
    [rank : {Num(1)}, name : {Str("A"), Absent},
     match_percentage : MatchPercentages]

ArrayOf(members) ==
    <<LSQ>> \o
    [i \in 1..(3 * Len(members)) |->
        IF i % 3 = 1 THEN LB
        ELSE IF i % 3 = 2 THEN Mem(members[(i + 1) \div 3])
        ELSE RB] \o
    <<RSQ>>

\* Responses that carry the given results, and those that carry none.
RankResponses(members) ==
    {LlmText(ArrayOf(members)), LlmText(<<Word>> \o ArrayOf(members) \o <<Word>>)}
    \cup (IF members = <<>>
          THEN {LlmFailure, LlmText(<<Word>>), LlmText(<<LSQ, Word, RSQ>>),
                LlmText(<<LSQ, Lit, RSQ>>), LlmText(<<RSQ, LSQ>>),
                LlmText(<<LSQ, Word>>), LlmText(<<Word, RSQ>>)}
          ELSE {})

RankRecord == [name |-> Str("A"), email |-> Str("a@x.io"), phone |-> Absent,
               experience_years |-> Num(5), tech_stack |-> Chars(s_stack_python)]
RankTables(members) ==
    {DataFrame(<<RankRecord>>)} \cup
    (IF members = <<>> THEN {DataFrame(<<>>)} ELSE {})

InitRank ==
    /\ fn = "rank"
    /\ \E members \in SeqsUpTo(RankMembers, MaxResults),
          texts \in RankStores,
          job \in RankJobs :
         \E llm \in RankResponses(members), df \in RankTables(members) :
            arg = [llm |-> llm, df |-> df, job_description |-> job,
                   texts |-> texts, members |-> members]
    /\ ret = Pending
    /\ SessionInit

ApplyRank ==
    /\ fn = "rank"
    /\ ret = Pending
    /\ \E ties \in [1..MaxResults -> {0, 1}] :
         ret' = match_candidates_with_jd(arg.llm, arg.df, arg.job_description,
                                         arg.texts, ties)
    /\ UNCHANGED <<fn, arg, sessionVars>>

NextRank == ApplyRank

SpecRank == InitRank /\ [][NextRank]_vars

Ranked == fn = "rank" /\ ret # Pending

HasStoredText(result) == StoredText(arg.texts, result.name) # <<>>

SemanticOf(result) ==
    calculate_semantic_score(StoredText(arg.texts, result.name), arg.job_description)

\* f (thousandths) is x (ten-thousandths) rounded to two decimal places.
IsRounded2(f, x) == f % 10 = 0 /\ 10 * f - x <= 50 /\ x - 10 * f <= 50

\* C1: every result the ranker returns carries semantic_score and
\* final_score; when a non-empty resume text is stored under the result's
\* name, semantic_score is the TF-IDF cosine score of that text against the
\* job description and final_score is 0.7 * match_percentage +
\* 0.3 * semantic_score rounded to two decimals; when none is stored,
\* semantic_score is 0 and final_score is match_percentage (0 when the
\* result has no match_percentage).
C1_HybridScore ==
    Ranked =>
        \A i \in 1..Len(ret.results) :
            LET r == ret.results[i]
                mp == Get(r.match_percentage, Num(0))
            IN IF HasStoredText(r)
               THEN /\ r.semantic_score = Num(SemanticOf(r))
                    /\ IsNum(mp) /\ IsNum(r.final_score)
                    /\ IsRounded2(r.final_score.num, 7 * mp.num + 3 * SemanticOf(r))
               ELSE /\ r.semantic_score = Num(0)
                    /\ r.final_score = mp

C1_Witness ==
    /\ Ranked
    /\ Len(ret.results) = 2
    /\ HasStoredText(ret.results[1])
    /\ ret.results[1].match_percentage = Num(88000)
    /\ ret.results[1].semantic_score = Num(57970)
    /\ ret.results[1].final_score = Num(78990)
    /\ ~HasStoredText(ret.results[2])
    /\ ret.results[2].final_score = Num(88000)

InSpan(r) ==
    /\ Min(r.match_percentage.num, r.semantic_score.num) <= r.final_score.num
    /\ r.final_score.num <= Max(r.match_percentage.num, r.semantic_score.num)

\* C2 as stated: whenever semantic_score > 0, final_score lies between
\* min(match_percentage, semantic_score) and max(match_percentage,
\* semantic_score), for every numeric match_percentage of the response.
C2_ConvexSpan ==
    Ranked =>
        \A i \in 1..Len(ret.results) :
            LET r == ret.results[i]
            IN (IsNum(r.match_percentage) /\ r.semantic_score.num > 0) => InSpan(r)

\* C2 amended: whenever semantic_score > 0 and match_percentage is a number
\* with at most two decimal places, final_score lies within the span; for
\* any other numeric match_percentage the rounding to two decimals can take
\* final_score outside the span, by less than 0.005.
C2_ConvexSpanTwoDecimals ==
    Ranked =>
        \A i \in 1..Len(ret.results) :
            LET r == ret.results[i]
            IN (IsNum(r.match_percentage) /\ r.semantic_score.num > 0) =>
                /\ r.match_percentage.num % 10 = 0 => InSpan(r)
                /\ Min(r.match_percentage.num, r.semantic_score.num) - 5
                        < r.final_score.num
                /\ r.final_score.num
                        < Max(r.match_percentage.num, r.semantic_score.num) + 5

C2_Witness ==
    /\ Ranked
    /\ \E i \in 1..Len(ret.results) :
         /\ ret.results[i].match_percentage = Num(88000)
         /\ ret.results[i].semantic_score.num > 0
         /\ ret.results[i].semantic_score.num < 88000
         /\ ret.results[i].final_score.num > ret.results[i].semantic_score.num
         /\ ret.results[i].final_score.num < 88000
    /\ \E j \in 1..Len(ret.results) :
         /\ ret.results[j].match_percentage = Num(57979)
         /\ ret.results[j].semantic_score = Num(57970)
         /\ ret.results[j].final_score = Num(57980)

----------------------------------------------------------------------------
(* extract_jd_requirements                                                 *)

NoJdMembers ==
    [minimum_experience_years |-> Absent, required_technical_skills |-> Absent]

JdDict(v) ==
    LET mems == SelectSeq(v.obj, IsMem)
    IN IF mems # <<>> THEN mems[1].mem ELSE NoJdMembers

\* extract_jd_requirements: requirements is the dict or None, error tells
\* whether st.error was called.
extract_jd_requirements(llm, job_description) ==
    LET request == [kind |-> "requirements", job_description |-> job_description]
    IN IF llm = LlmFailure
       THEN [requirements |-> NoneValue, error |-> TRUE, request |-> request]
       ELSE LET e == ExtractObjectText(llm.response)
            IN IF ~e.found
               THEN [requirements |-> NoneValue, error |-> FALSE, request |-> request]
               ELSE LET loaded == JsonLoads(e.text)
                    IN IF ~loaded.ok
                       THEN [requirements |-> NoneValue, error |-> TRUE,
                             request |-> request]
                       ELSE [requirements |-> JdDict(loaded.v), error |-> FALSE,
                             request |-> request]

\* Truthiness of a dict or None: an empty dict is falsy.
DictTruthy(d) == d # NoneValue /\ \E f \in DOMAIN d : d[f] # Absent

----------------------------------------------------------------------------
(* The session: the "Parse All Resumes" handler of the upload tab and the  *)
(* "Analyze JD & Match Candidates" handler of the matching tab.            *)

MaxFiles == 2

\* A store that keeps the first value put under a key.
MapPutKeepFirst(m, k, v) ==
    [x \in DOMAIN m \cup {k} |-> IF x \in DOMAIN m THEN m[x] ELSE v]

MapPut(m, k, v) == [x \in DOMAIN m \cup {k} |-> IF x = k THEN v ELSE m[x]]

\* The loop with a second request for a document whose first one yielded
\* no record.
RECURSIVE ParseFilesRetry(_, _, _)
ParseFilesRetry(files, mask_pii_enabled, acc) ==
    IF files = <<>> THEN acc
    ELSE LET file == Head(files)
             text == file.text
             out == parse_resume_with_groq(file.llm, text, file.name,
                                           mask_pii_enabled, Str("now"))
             parsed == out.record
             request == [filename |-> file.name, prompt |-> out.request]
         IN IF text = <<>> THEN ParseFilesRetry(Tail(files), mask_pii_enabled, acc)
            ELSE IF parsed # NoneValue
            THEN ParseFilesRetry(Tail(files), mask_pii_enabled,
                            [parsed |-> Append(acc.parsed, parsed),
                             texts |-> MapPut(acc.texts, NameKey(parsed.name), text),
                             requests |-> Append(acc.requests, request)])
            ELSE ParseFilesRetry(Tail(files), mask_pii_enabled,
                            [acc EXCEPT !.requests = acc.requests \o <<request, request>>])

\* The loop over uploaded_files (tabs.py lines 220-235): the records
\* appended, the texts stored, and the LLM requests issued, in order.
RECURSIVE ParseFiles(_, _, _)
ParseFiles(files, mask_pii_enabled, acc) ==
    IF files = <<>> THEN acc
    ELSE LET file == Head(files)
             text == file.text
             out == parse_resume_with_groq(file.llm, text, file.name,
                                           mask_pii_enabled, Str("now"))
             parsed == out.record
             request == [filename |-> file.name, prompt |-> out.request]
         IN IF text = <<>> THEN ParseFiles(Tail(files), mask_pii_enabled, acc)
            ELSE IF parsed # NoneValue
            THEN ParseFiles(Tail(files), mask_pii_enabled,
                            [parsed |-> Append(acc.parsed, parsed),
                             texts |-> MapPut(acc.texts, NameKey(parsed.name), text),
                             requests |-> Append(acc.requests, request)])
            ELSE ParseFiles(Tail(files), mask_pii_enabled,
                            [acc EXCEPT !.requests = Append(acc.requests, request)])

\* The accumulators of the loop as the handler resets them (lines 214-216).
NoneParsed == [parsed |-> <<>>, texts |-> EmptyMap, requests |-> <<>>]

StructuredA == [name |-> Str("A"), email |-> Str("a@x.io"), phone |-> Absent,
                experience_years |-> Num(5), tech_stack |-> Chars(s_stack_python)]
StructuredB == [name |-> Str("B"), email |-> Absent, phone |-> Absent,
                experience_years |-> Num(2), tech_stack |-> Chars(s_stack_np)]

\* An uploaded file: the text extracted from it (empty when extraction
\* fails) and the LLM's answer to the parsing request for it.
SessionFiles ==
    {[name |-> Str("scan.png"), text |-> <<>>, llm |-> LlmFailure],
     [name |-> Str("a.pdf"), text |-> <<"python">>,
      llm |-> LlmText(<<LB, Mem(StructuredA), RB>>)],
     [name |-> Str("b.pdf"), text |-> <<"python", "aws">>,
      llm |-> LlmText(<<Word, LB, Mem(StructuredB), RB>>)]}

ParseAllResumes ==
    /\ fn = "session"
    /\ \E files \in SeqsUpTo(SessionFiles, MaxFiles) \ {<<>>},
          mask_pii_enabled \in BOOLEAN :
         \E out \in {ParseFiles(files, mask_pii_enabled, NoneParsed)} :
            /\ parsed_resumes' = out.parsed
            /\ resume_texts' = out.texts
            /\ candidates_df' = IF out.parsed # <<>> THEN DataFrame(out.parsed)
                                ELSE candidates_df
    /\ UNCHANGED <<matched_results, last_pass, callVars>>

\* The "Download All Resumes" handler of the SharePoint section (tabs.py
\* lines 119-167): the same loop over the downloaded files.
DownloadAllResumes ==
    /\ fn = "session"
    /\ \E downloaded_files \in SeqsUpTo(SessionFiles, MaxFiles) \ {<<>>},
          mask_pii_enabled \in BOOLEAN :
         \E out \in {ParseFiles(downloaded_files, mask_pii_enabled, NoneParsed)} :
            /\ parsed_resumes' = out.parsed
            /\ resume_texts' = out.texts
            /\ candidates_df' = IF out.parsed # <<>> THEN DataFrame(out.parsed)
                                ELSE candidates_df
    /\ UNCHANGED <<matched_results, last_pass, callVars>>

\* The date filter (tabs.py lines 571-578).  Every record of the model is
\* stamped with the same day, so a window either covers all rows, which
\* leaves the table as it is with the filter off, or misses all of them.
DateWindows == {"off", "misses"}
DateFilter(df, window) ==
    IF window = "misses" THEN [df EXCEPT !.rows = <<>>] ELSE df

Requirements(min_exp, skills) ==
    LlmText(<<LB, Mem([minimum_experience_years |-> min_exp,
                       required_technical_skills |-> List(skills)]), RB>>)

JdResponses ==
    {LlmFailure, LlmText(<<Word>>), LlmText(<<LB, RB>>),
     Requirements(Num(0), <<>>), Requirements(Num(3), <<Chars(s_Python)>>),
     Requirements(Num(9), <<>>), Requirements(NoneValue, <<>>)}

RankedA == [rank |-> Num(2), name |-> Str("A"), match_percentage |-> Num(88000)]
RankedB == [rank |-> Num(1), name |-> Str("B"), match_percentage |-> Num(70000)]

\* None of these results puts the blend at an exact half.
SessionRankResponses ==
    {LlmFailure, LlmText(<<Word>>),
     LlmText(ArrayOf(<<RankedA>>)), LlmText(ArrayOf(<<RankedB, RankedA>>))}
SessionTies == [i \in 1..2 |-> 0]
SessionJobs == {<<"python", "aws">>}

\* What the flow does once filtered_df is known (tabs.py lines 635-695):
\* the ranker is called only for a non-empty pool.
RankPool(llm, filtered_df, job_desc, texts) ==
    IF ~DfEmpty(filtered_df)
    THEN match_candidates_with_jd(llm, filtered_df, job_desc, texts, SessionTies)
    ELSE [results |-> <<>>, requests |-> <<>>, error |-> FALSE]

\* last_pass records the most recent click: how far it got, whether a
\* requirement record was derived (not None), the size of the
\* pool that came out of pre-screening, what the ranker returned, how many ranking
\* requests were issued and whether st.error was called.
AnalyzeAndMatch ==
    /\ fn = "session"
    /\ candidates_df # NoneValue
    /\ \E job_desc \in SessionJobs, jd_llm \in JdResponses, window \in DateWindows :
        \E jd_requirements \in {extract_jd_requirements(jd_llm, job_desc).requirements} :
         IF ~DictTruthy(jd_requirements)
         THEN /\ last_pass' = [stage |-> "no_requirements",
                               derived |-> jd_requirements # NoneValue]
              /\ UNCHANGED matched_results
         ELSE \E screened \in {auto_pre_screen_candidates(
                                  DateFilter(candidates_df, window), jd_requirements)} :
               IF IsRaised(screened)
               THEN /\ last_pass' = [stage |-> "raised",
                                     derived |-> jd_requirements # NoneValue]
                    /\ UNCHANGED matched_results
               ELSE \E rank_llm \in SessionRankResponses :
                     \E ranking \in {RankPool(rank_llm, screened.df, job_desc,
                                              resume_texts)} :
                        /\ matched_results' = IF ranking.results # <<>>
                                              THEN List(ranking.results)
                                              ELSE matched_results
                        /\ last_pass' = [stage |-> "ranked",
                                         derived |-> jd_requirements # NoneValue,
                                         pool |-> Len(screened.df.rows),
                                         results |-> ranking.results,
                                         requests |-> Len(ranking.requests),
                                         error |-> ranking.error]
    /\ UNCHANGED <<parsed_resumes, resume_texts, candidates_df, callVars>>

Init ==
    /\ fn = "session"
    /\ arg = NoneValue
    /\ ret = NoneValue
    /\ SessionInit

Next == ParseAllResumes \/ DownloadAllResumes \/ AnalyzeAndMatch

Spec == Init /\ [][Next]_vars

\* The ranker called directly and the ranker reached through the session.
InitPool == Init \/ InitRank
NextPool == ParseAllResumes \/ DownloadAllResumes \/ AnalyzeAndMatch \/ ApplyRank
SpecPool == InitPool /\ [][NextPool]_vars

\* C9: whenever the pre-screened pool is empty, no ranking request is issued
\* and the ranking is the empty list without an error, both when
\* match_candidates_with_jd is called with an empty table and when the
\* matching flow ends with an empty pool.
C9_EmptyPoolNoRequest ==
    /\ (Ranked /\ DfEmpty(arg.df)) =>
            ret.results = <<>> /\ ret.requests = <<>> /\ ~ret.error
    /\ (fn = "session" /\ last_pass.stage = "ranked" /\ last_pass.pool = 0) =>
            last_pass.results = <<>> /\ last_pass.requests = 0 /\ ~last_pass.error

C9_Witness ==
    /\ fn = "session"
    /\ candidates_df # NoneValue
    /\ ~DfEmpty(candidates_df)
    /\ matched_results # NoneValue
    /\ last_pass.stage = "ranked"
    /\ last_pass.pool = 0
    /\ last_pass.requests = 0

ShownRanking ==
    IF matched_results = NoneValue THEN <<>> ELSE matched_results.list

\* C10: after a ranking pass the session's match results are exactly what
\* that pass produced, an empty list included; nothing of an earlier pass
\* is retained.
C10_LatestPassOnly ==
    (fn = "session" /\ last_pass.stage = "ranked") =>
        ShownRanking = last_pass.results

----------------------------------------------------------------------------
(* The candidate table across parse batches.                               *)

\* The records of the in-memory candidate table (none before the first table
\* is built).
TableRows == IF candidates_df = NoneValue THEN <<>> ELSE candidates_df.rows

\* C11: in a session the candidate table holds exactly the records of the
\* most recent parse batch (parsed_resumes is reset at the start of every
\* batch), also when that batch produced no record.
C11_TableIsLatestBatch ==
    fn = "session" => TableRows = DataFrame(parsed_resumes).rows

----------------------------------------------------------------------------
(* The resume text embedded in the structurer's prompt.                    *)

RECURSIVE KeptLength(_)
KeptLength(pieces) ==
    IF pieces = <<>> THEN 0
    ELSE pieces[1].keep + (IF Len(pieces) > 1 THEN 1 ELSE 0) + KeptLength(Tail(pieces))

RECURSIVE TextLength(_)
TextLength(text) ==
    IF text = <<>> THEN 0
    ELSE LexemeLength(text[1]) + (IF Len(text) > 1 THEN 1 ELSE 0) + TextLength(Tail(text))

\* pieces is the first budget characters of text (all of it when it is
\* shorter): a prefix of its lexemes, all whole except possibly the last,
\* and nothing more would fit.
IsFirstChars(pieces, text, budget) ==
    /\ Len(pieces) <= Len(text)
    /\ \A i \in 1..Len(pieces) :
        /\ pieces[i].lx = text[i]
        /\ pieces[i].keep >= 1
        /\ pieces[i].keep <= LexemeLength(text[i])
        /\ i < Len(pieces) => pieces[i].keep = LexemeLength(text[i])
    /\ KeptLength(pieces) <= budget
    /\ IF TextLength(text) <= budget
       THEN KeptLength(pieces) = TextLength(text)
       ELSE KeptLength(pieces) >= budget - 1

Redacted(lx) == MaskEmailMatches(lx) \/ MaskPhoneMatches(lx)

----------------------------------------------------------------------------
(* One parse batch as a function of its documents, run in a fresh session  *)
(* or in a session that already holds the table of an earlier batch.       *)

LongText == <<Filler, "bob@x.io", "python">>

\* The documents of a batch: kind tells what becomes of the document.
BatchFiles ==
    {[kind |-> "no_text", name |-> Str("scan.png"), text |-> <<>>,
      llm |-> LlmFailure],
     [kind |-> "ok", name |-> Str("a.pdf"), text |-> <<"python">>,
      llm |-> LlmText(<<LB, Mem(StructuredA), RB>>)],
     [kind |-> "ok", name |-> Str("b.pdf"), text |-> LongText,
      llm |-> LlmText(<<Word, LB, Mem(StructuredB), RB>>)],
     [kind |-> "llm_failure", name |-> Str("c.pdf"), text |-> <<"python">>,
      llm |-> LlmFailure],
     [kind |-> "no_braces", name |-> Str("d.pdf"), text |-> <<"python">>,
      llm |-> LlmText(<<Word>>)],
     [kind |-> "malformed", name |-> Str("e.pdf"), text |-> <<"python">>,
      llm |-> LlmText(<<LB, Word, RB>>)]}

\* The session before the batch: fresh, or after a batch that parsed z.pdf.
EarlierFile == [name |-> Str("z.pdf"), text |-> <<"aws">>,
                llm |-> LlmText(<<LB, Mem(StructuredB), RB>>)]
EarlierBatches == {<<>>, <<EarlierFile>>}

InitBatch ==
    /\ fn = "batch"
    /\ \E files \in SeqsUpTo(BatchFiles, MaxFiles) \ {<<>>},
          mask_pii_enabled \in BOOLEAN :
         arg = [files |-> files, mask_pii_enabled |-> mask_pii_enabled]
    /\ ret = Pending
    /\ \E earlier \in EarlierBatches :
        \E out \in {ParseFiles(earlier, FALSE, NoneParsed)} :
            /\ parsed_resumes = out.parsed
            /\ resume_texts = out.texts
            /\ candidates_df = IF out.parsed # <<>> THEN DataFrame(out.parsed)
                               ELSE NoneValue
    /\ matched_results = NoneValue
    /\ last_pass = [stage |-> "none"]

\* The handler's body (tabs.py lines 214-243) on the documents of arg.
ApplyBatch ==
    /\ fn = "batch"
    /\ ret = Pending
    /\ \E out \in {ParseFiles(arg.files, arg.mask_pii_enabled, NoneParsed)} :
            /\ parsed_resumes' = out.parsed
            /\ resume_texts' = out.texts
            /\ candidates_df' = IF out.parsed # <<>> THEN DataFrame(out.parsed)
                                ELSE candidates_df
            /\ ret' = [done |-> TRUE, requests |-> out.requests]
    /\ UNCHANGED <<fn, arg, matched_results, last_pass>>

NextBatch == ApplyBatch

SpecBatch == InitBatch /\ [][NextBatch]_vars

BatchDone == fn = "batch" /\ ret # Pending

IsOk(file) == file.kind = "ok"
Filenames(records) == [i \in 1..Len(records) |-> records[i].filename]
SucceededNames == LET ok == SelectSeq(arg.files, IsOk)
                  IN [i \in 1..Len(ok) |-> ok[i].name]

\* C12: after a batch the table holds one record for each document that
\* succeeded, in document order (a document without text, with a failed LLM
\* call, a response without braces or a malformed braced substring yields
\* none), and never more records than documents attempted.
C12_OneRecordPerSuccess ==
    BatchDone =>
        /\ Filenames(TableRows) = SucceededNames
        /\ Len(TableRows) <= Len(arg.files)

\* The list collected by the loop itself does hold one record per document
\* that succeeded, in document order.
ParsedListPerSuccess ==
    BatchDone => Filenames(parsed_resumes) = SucceededNames

\* The table too, in a fresh session or when some document succeeded.
TablePerSuccessUnlessStale ==
    (BatchDone /\ (parsed_resumes # <<>> \/ candidates_df = NoneValue)) =>
        Filenames(TableRows) = SucceededNames

FileNamed(name) == CHOOSE f \in BatchFiles : f.name = name

\* C16: for every document parsed in the batch, masking enabled or not, the
\* text stored for lexical scoring under the record's name is the
\* document's original text, unredacted and beyond the first 6000
\* characters, and the contact regexes ran over that original text: an
\* email that only the original text shows is the record's email.
C16_OriginalTextKept ==
    BatchDone =>
        \A i \in 1..Len(parsed_resumes) :
            LET r == parsed_resumes[i]
                text == FileNamed(r.filename).text
            IN /\ StoredText(resume_texts, r.name) = text
               /\ (\E k \in 1..Len(text) : EmailPatternMatches(text[k])) =>
                    r.email = Str(SelectSeq(text, EmailPatternMatches)[1])

C16_Witness ==
    /\ BatchDone
    /\ arg.mask_pii_enabled
    /\ Len(parsed_resumes) = 1
    /\ parsed_resumes[1].filename = Str("b.pdf")
    /\ parsed_resumes[1].email = Str("bob@x.io")
    /\ resume_texts[Str("B")] = LongText
    /\ PromptText(LongText, TRUE) = <<[lx |-> Filler, keep |-> 5995],
                                      [lx |-> EMAIL_MASKED, keep |-> 4]>>

----------------------------------------------------------------------------
(* What the ranker returns, against what the LLM response carried.         *)

\* The call went through: a table with rows, and no error reported.
RankedThrough == Ranked /\ ~DfEmpty(arg.df) /\ ~ret.error

\* C13: when the call goes through, the list returned is the list the
\* response carried, in the same order and of the same length, with the
\* LLM-assigned fields of every result unchanged; only semantic_score and
\* final_score are added, and the list is not re-sorted by final_score.
C13_OrderAndFieldsKept ==
    (RankedThrough /\ arg.members # <<>>) =>
        /\ Len(ret.results) = Len(arg.members)
        /\ \A i \in 1..Len(ret.results) :
            /\ DOMAIN ret.results[i] =
                    DOMAIN arg.members[i] \cup {"semantic_score", "final_score"}
            /\ \A f \in DOMAIN arg.members[i] : ret.results[i][f] = arg.members[i][f]

\* The order returned is not the order of final_score.
C13_Witness ==
    /\ RankedThrough
    /\ Len(ret.results) = 2
    /\ ret.results[1].name = Absent
    /\ ret.results[1].match_percentage = Num(57979)
    /\ ret.results[2].name = Str("A")
    /\ ret.results[2].match_percentage = Num(88000)
    /\ ret.results[1].final_score.num < ret.results[2].final_score.num

Unscorable(m) ==
    /\ StoredText(arg.texts, m.name) # <<>>
    /\ ~IsNum(Get(m.match_percentage, Num(0)))

\* The outcomes of the ranking request that count as failures.
RankFailure ==
    \/ arg.llm = LlmFailure
    \/ /\ arg.llm # LlmFailure
       /\ \/ ~HasToken(arg.llm.response, LSQ)
          \/ ~HasToken(arg.llm.response, RSQ)
          \/ arg.llm.response \in {<<LSQ, Word, RSQ>>, <<RSQ, LSQ>>, <<LSQ, Lit, RSQ>>}
          \/ \E i \in 1..Len(arg.members) : Unscorable(arg.members[i])

\* C14: for a transport failure, a response lacking '[' or ']', a malformed
\* array or an array with an element that cannot be scored, the ranker
\* returns the empty list; whatever it returns, every element carries both
\* scores, so no partially scored list is ever returned.
C14_EmptyOnFailure ==
    Ranked =>
        /\ \A i \in 1..Len(ret.results) :
                {"semantic_score", "final_score"} \subseteq DOMAIN ret.results[i]
        /\ RankFailure => ret.results = <<>>
        /\ ret.results # <<>> => Len(ret.results) = Len(arg.members)

\* A list whose first element is scorable and whose second is not.
C14_Witness ==
    /\ Ranked
    /\ ~DfEmpty(arg.df)
    /\ Len(arg.members) = 2
    /\ ~Unscorable(arg.members[1])
    /\ Unscorable(arg.members[2])
    /\ ret.results = <<>>
    /\ ret.error

----------------------------------------------------------------------------
(* extract_jd_requirements as a function of the LLM response, its result   *)
(* handed to auto_pre_screen_candidates as it is; and the session.         *)

JdHarnessResponses ==
    {LlmFailure, LlmText(<<Word>>), LlmText(<<LB, Word>>), LlmText(<<Word, RB>>),
     LlmText(<<RB, LB>>), LlmText(<<LB, Word, RB>>), LlmText(<<LB, RB>>),
     LlmText(<<Word, LB, Mem([minimum_experience_years |-> Num(3),
                              required_technical_skills |-> List(<<>>)]), RB, Word>>),
     Requirements(Num(0), <<>>), Requirements(Num(3), <<Chars(s_Python)>>)}

JdHarnessRecords == {StructuredA, StructuredB}

InitRequirements ==
    /\ fn = "requirements"
    /\ \E llm \in JdHarnessResponses, job_description \in RankJobs,
          records \in SeqsUpTo(JdHarnessRecords, MaxRows) :
         arg = [llm |-> llm, job_description |-> job_description,
                df |-> DataFrame(records)]
    /\ ret = Pending
    /\ SessionInit

ApplyRequirements ==
    /\ fn = "requirements"
    /\ ret = Pending
    /\ \E out \in {extract_jd_requirements(arg.llm, arg.job_description)} :
         ret' = [requirements |-> out.requirements, error |-> out.error]
    /\ UNCHANGED <<fn, arg, sessionVars>>

\* A caller that hands the result to the pre-screener without testing it.
ApplyScreenWithRequirements ==
    /\ fn = "requirements"
    /\ ret # Pending
    /\ "screened" \notin DOMAIN ret
    /\ ret' = [requirements |-> ret.requirements, error |-> ret.error,
               screened |-> auto_pre_screen_candidates(arg.df, ret.requirements)]
    /\ UNCHANGED <<fn, arg, sessionVars>>

InitJd == Init \/ InitRequirements
NextJd == ParseAllResumes \/ DownloadAllResumes \/ AnalyzeAndMatch
            \/ ApplyRequirements \/ ApplyScreenWithRequirements
SpecJd == InitJd /\ [][NextJd]_vars

\* The outcomes of the requirement request that count as failures.
JdFailure ==
    \/ arg.llm = LlmFailure
    \/ /\ arg.llm # LlmFailure
       /\ \/ ~HasToken(arg.llm.response, LB)
          \/ ~HasToken(arg.llm.response, RB)
          \/ arg.llm.response \in {<<RB, LB>>, <<LB, Word, RB>>}

\* C15: extract_jd_requirements returns None on an LLM call error, a
\* response without braces and a malformed braced substring;
\* auto_pre_screen_candidates given None as the requirement record returns
\* the table it was given with an empty summary; and in the session
\* pre-screening runs only when a requirement record was derived.
C15_NullRequirements ==
    /\ (fn = "requirements" /\ ret # Pending) =>
        /\ JdFailure => ret.requirements = NoneValue
        /\ ("screened" \in DOMAIN ret /\ ret.requirements = NoneValue) =>
                ret.screened = [df |-> arg.df, summary |-> <<>>]
    /\ (fn = "session" /\ last_pass.stage \in {"raised", "ranked"}) =>
            last_pass.derived

C15_Witness ==
    /\ fn = "requirements"
    /\ ret # Pending
    /\ arg.llm = LlmText(<<LB, Word, RB>>)
    /\ Len(arg.df.rows) = 2
    /\ ret.requirements = NoneValue
    /\ ret.error
    /\ "screened" \in DOMAIN ret
    /\ ret.screened.df = arg.df

----------------------------------------------------------------------------
(* Text extraction (file_handlers.py).  A document is a file name, given   *)
(* as its dot-separated parts, and a content: a PDF with its pages, a DOCX *)
(* with its text, or bytes that are neither.  A page yields text, None or  *)
(* an exception.                                                           *)

Newline == "\n"

PageText(t) == [text |-> t]
IsPageText(p) == DOMAIN p = {"text"}

\* str.lower() on the file name parts in use.
lower(part) ==
    CASE part = "PDF" -> "pdf"
      [] part = "Docx" -> "docx"
      [] OTHER -> part

\* Lines 13-17: the reader, then text += page.extract_text() + "\n" per page.
RECURSIVE PdfPagesFrom(_, _, _)
PdfPagesFrom(pages, i, text) ==
    IF i > Len(pages) THEN PageText(text)
    ELSE IF IsRaised(pages[i]) THEN pages[i]
    ELSE IF ~IsPageText(pages[i]) THEN Raised("TypeError")
    ELSE PdfPagesFrom(pages, i + 1, text \o pages[i].text \o <<Newline>>)

PdfRead(pdf_file) ==
    IF pdf_file.container # "pdf" THEN Raised("PdfReadError")
    ELSE PdfPagesFrom(pdf_file.pages, 1, <<>>)

\* extract_text_from_pdf without its try/except.
extract_text_from_pdf_no_try(pdf_file) ==
    LET r == PdfRead(pdf_file)
    IN IF IsRaised(r) THEN r
       ELSE [text |-> r.text, error |-> FALSE, warning |-> FALSE]

extract_text_from_pdf(pdf_file) ==
    LET r == PdfRead(pdf_file)
    IN IF IsRaised(r) THEN [text |-> <<>>, error |-> TRUE, warning |-> FALSE]
       ELSE [text |-> r.text, error |-> FALSE, warning |-> FALSE]

extract_text_from_docx(docx_file) ==
    IF docx_file.container # "docx"
    THEN [text |-> <<>>, error |-> TRUE, warning |-> FALSE]
    ELSE [text |-> docx_file.text, error |-> FALSE, warning |-> FALSE]

extract_text_from_file(uploaded_file) ==
    LET name == IF uploaded_file.source = "sharepoint"
                THEN uploaded_file.dict.name ELSE uploaded_file.name
        file_ext == lower(name[Len(name)])
        file_content == IF uploaded_file.source = "sharepoint"
                        THEN uploaded_file.dict.content ELSE uploaded_file.content
    IN IF file_ext = "pdf" THEN extract_text_from_pdf(file_content)
       ELSE IF file_ext = "docx" THEN extract_text_from_docx(file_content)
       ELSE [text |-> <<>>, error |-> FALSE, warning |-> TRUE]

MaxPages == 2

FileNames == {<<"a", "pdf">>, <<"a", "PDF">>, <<"a", "docx">>, <<"a", "Docx">>,
              <<"a", "txt">>, <<"a">>, <<"a", "pdf", "exe">>}

Pages == {PageText(<<"python">>), PageText(<<>>), NoneValue, Raised("PdfReadError")}

FileContents ==
    {[container |-> "pdf", pages |-> ps] : ps \in SeqsUpTo(Pages, MaxPages)}
      \cup {[container |-> "docx", text |-> t] : t \in {<<>>, <<"python", "aws">>}}
      \cup {[container |-> "garbage"]}

InputDocuments ==
    {[source |-> "upload", name |-> n, content |-> c] :
        n \in FileNames, c \in FileContents}
      \cup {[source |-> "sharepoint", dict |-> [name |-> n, content |-> c]] :
              n \in FileNames, c \in FileContents}

InitFile ==
    /\ fn = "file"
    /\ arg \in InputDocuments
    /\ ret = Pending
    /\ SessionInit

ApplyFile ==
    /\ fn = "file"
    /\ ret = Pending
    /\ ret' = extract_text_from_file(arg)
    /\ UNCHANGED <<fn, arg, sessionVars>>

NextFile == ApplyFile
SpecFile == InitFile /\ [][NextFile]_vars

DocName == IF arg.source = "sharepoint" THEN arg.dict.name ELSE arg.name
DocContent == IF arg.source = "sharepoint" THEN arg.dict.content ELSE arg.content
DocExt == lower(DocName[Len(DocName)])

\* The document cannot be read as the container its extension declares.
ReadFails ==
    \/ /\ DocExt = "pdf"
       /\ \/ DocContent.container # "pdf"
          \/ /\ DocContent.container = "pdf"
             /\ \E i \in 1..Len(DocContent.pages) : ~IsPageText(DocContent.pages[i])
    \/ /\ DocExt = "docx"
       /\ DocContent.container # "docx"

\* C18: for every input document extract_text_from_file returns (no
\* exception escapes); a PDF or DOCX that cannot be read yields the empty
\* string and a displayed error; any other extension yields the empty
\* string and a warning.
C18_NoExceptionEscapes ==
    (fn = "file" /\ ret # Pending) =>
        /\ ~IsRaised(ret)
        /\ ReadFails => (ret.text = <<>> /\ ret.error)
        /\ DocExt \notin {"pdf", "docx"} =>
                (ret.text = <<>> /\ ret.warning /\ ~ret.error)

C18_Witness ==
    /\ fn = "file"
    /\ ret # Pending
    /\ arg.source = "sharepoint"
    /\ DocName = <<"a", "PDF">>
    /\ DocContent = [container |-> "pdf",
                     pages |-> <<PageText(<<"python">>), NoneValue>>]
    /\ ret = [text |-> <<>>, error |-> TRUE, warning |-> FALSE]

----------------------------------------------------------------------------
(* calculate_semantic_score called several times in a row on the two texts *)
(* of a pair, in either order; ret is the log of the calls.                *)

MaxCalls == 3

ScoreTexts == {<<>>, <<"python">>, <<"python", "aws">>, <<"aws", "python">>,
               <<"python", "python", "aws">>, <<"bob@x.io">>,
               <<"bob@x.io", "python">>}

InitScore ==
    /\ fn = "score"
    /\ \E a \in ScoreTexts, b \in ScoreTexts : arg = [a |-> a, b |-> b]
    /\ ret = <<>>
    /\ SessionInit

ApplyScore ==
    /\ fn = "score"
    /\ Len(ret) < MaxCalls
    /\ \E resume_text \in {arg.a, arg.b}, jd_text \in {arg.a, arg.b} :
         ret' = Append(ret, [resume_text |-> resume_text, jd_text |-> jd_text,
                             score |-> calculate_semantic_score(resume_text, jd_text)])
    /\ UNCHANGED <<fn, arg, sessionVars>>

NextScore == ApplyScore
SpecScore == InitScore /\ [][NextScore]_vars

----------------------------------------------------------------------------
(* generate_interview_questions as a function of the LLM's outcome, the    *)
(* candidate record and the job description.                               *)

JobBudget == 1000

\* dict.get(key): None when the key is missing.
DictGet(d, key) == IF key \in DOMAIN d THEN d[key] ELSE NoneValue

\* The prompt of lines 164-182 with the whole job description in it.
QuestionRequestWholeJob(candidate_data, job_description) ==
    [kind |-> "questions",
     name |-> DictGet(candidate_data, "name"),
     experience_years |-> DictGet(candidate_data, "experience_years"),
     tech_stack |-> DictGet(candidate_data, "tech_stack"),
     current_role |-> DictGet(candidate_data, "current_role"),
     job |-> Truncate(job_description, TextLength(job_description))]

QuestionRequest(candidate_data, job_description) ==
    [kind |-> "questions",
     name |-> DictGet(candidate_data, "name"),
     experience_years |-> DictGet(candidate_data, "experience_years"),
     tech_stack |-> DictGet(candidate_data, "tech_stack"),
     current_role |-> DictGet(candidate_data, "current_role"),
     job |-> Truncate(job_description, JobBudget)]

\* generate_interview_questions: the value it returns, whether it called
\* st.error, and the request it issued.
generate_interview_questions(llm, candidate_data, job_description) ==
    LET request == QuestionRequest(candidate_data, job_description)
        empty == [questions |-> [arr |-> <<>>], error |-> FALSE, request |-> request]
    IN IF llm = LlmFailure THEN empty
       ELSE LET json_start == Find(llm.response, LSQ)
                json_end == RFind(llm.response, RSQ) + 1
            IN IF json_start # -1
               THEN LET loaded == JsonLoads(Slice(llm.response, json_start, json_end))
                    IN IF loaded.ok
                       THEN [questions |-> loaded.v, error |-> FALSE,
                             request |-> request]
                       ELSE empty
               ELSE empty

SampleQuestion == [category |-> Str("Technical"), question |-> Str("Q")]

QuestionResponses ==
    {LlmFailure, LlmText(<<Word>>), LlmText(<<LSQ, Word, RSQ>>),
     LlmText(<<LSQ, Word>>), LlmText(<<Word, RSQ>>), LlmText(<<RSQ, LSQ>>),
     LlmText(<<LSQ, RSQ>>), LlmText(ArrayOf(<<SampleQuestion>>)),
     LlmText(<<Word>> \o ArrayOf(<<SampleQuestion, SampleQuestion>>) \o <<Word>>)}

QuestionJobs == {<<>>, <<"python">>, <<JobFiller>>, <<JobFiller, "aws">>,
                 <<JobFiller, "python">>, <<JobFiller, "python", "aws">>,
                 <<JobFiller, JobFiller>>}

QuestionCandidates == {StructuredA, [name |-> Str("B")]}

InitQuestions ==
    /\ fn = "questions"
    /\ \E llm \in QuestionResponses, candidate_data \in QuestionCandidates,
          job_description \in QuestionJobs :
         arg = [llm |-> llm, candidate_data |-> candidate_data,
                job_description |-> job_description]
    /\ ret = Pending
    /\ SessionInit

ApplyQuestions ==
    /\ fn = "questions"
    /\ ret = Pending
    /\ ret' = generate_interview_questions(arg.llm, arg.candidate_data,
                                           arg.job_description)
    /\ UNCHANGED <<fn, arg, sessionVars>>

NextQuestions == ApplyQuestions
SpecQuestions == InitQuestions /\ [][NextQuestions]_vars

\* The outcomes of the question request that count as failures.
QuestionFailure ==
    \/ arg.llm = LlmFailure
    \/ /\ arg.llm # LlmFailure
       /\ \/ ~HasToken(arg.llm.response, LSQ)
          \/ ~HasToken(arg.llm.response, RSQ)
          \/ arg.llm.response \in {<<LSQ, Word, RSQ>>, <<RSQ, LSQ>>}

\* C20: generate_interview_questions always returns; on a failing LLM call,
\* a response without brackets and a malformed array it returns the empty
\* list and reports no error; and the job description in its prompt is the
\* first 1000 characters of the one it was given.
C20_SilentEmptyAndJobCut ==
    (fn = "questions" /\ ret # Pending) =>
        /\ ~IsRaised(ret)
        /\ ~ret.error
        /\ QuestionFailure => ret.questions = [arr |-> <<>>]
        /\ KeptLength(ret.request.job) <= 1000
        /\ IsFirstChars(ret.request.job, arg.job_description, 1000)

C20_Witness ==
    /\ fn = "questions"
    /\ ret # Pending
    /\ arg.llm = LlmText(<<LSQ, Word, RSQ>>)
    /\ arg.job_description = <<JobFiller, "python", "aws">>
    /\ ret.questions = [arr |-> <<>>]
    /\ ~ret.error
    /\ ret.request.job = <<[lx |-> JobFiller, keep |-> 995], [lx |-> "python", keep |-> 4]>>

----------------------------------------------------------------------------
(* The structurer's failure paths.                                         *)

\* The outcomes of the structuring request that count as failures.
StructurerFailure ==
    \/ arg.llm = LlmFailure
    \/ /\ arg.llm # LlmFailure
       /\ arg.llm.response \in ResponsesWithout

\* C21: on a failing LLM call, a response without JSON braces and a
\* malformed braced substring, parse_resume_with_groq returns no record and
\* displays an error message.
C21_FailureSurfacesError ==
    (fn = "parse" /\ ret # Pending /\ StructurerFailure) =>
        (ret.record = NoneValue /\ ret.error)

\* The part of C21 that holds: every failure drops the record, and the
\* failing call and the malformed substring display an error.
C21_FailureDropsRecord ==
    (fn = "parse" /\ ret # Pending /\ StructurerFailure) =>
        /\ ret.record = NoneValue
        /\ (arg.llm = LlmFailure \/ arg.llm = LlmText(<<LB, Word, RB>>)) => ret.error

----------------------------------------------------------------------------
(* has_required_skills as a function of one tech stack and the list of     *)
(* required skills; ret holds the count it reached and what it returned.   *)

MaxRequired == 3

s_AWS == <<"A","W","S">>
s_Scikit_Learn == <<"S","c","i","k","i","t","-","L","e","a","r","n">>
s_TensorFlow == <<"T","e","n","s","o","r","F","l","o","w">>
s_PyTorch == <<"P","y","T","o","r","c","h">>
s_stack_sklearn == <<"s","k","l","e","a","r","n",","," ","T","o","r","c","h">>
s_stack_tensor == <<"T","e","n","s","o","r","B","o","a","r","d">>
s_stack_scikit_learn == <<"S","c","i","k","i","t","-","l","e","a","r","n",","," ",
                          "N","u","m","P","y",","," ","P","y","T","o","r","c","h">>

RequiredSkills == {Chars(s_Python), Chars(s_NumPy), Chars(s_AWS), Chars(s_Scikit_Learn),
                   Chars(s_TensorFlow), Chars(s_PyTorch)}

SkillStacks == {NaN, NoneValue, Chars(<<>>), Chars(s_stack_python), Chars(s_stack_np),
                Chars(s_stack_sklearn), Chars(s_stack_tensor),
                Chars(s_stack_scikit_learn)}

InitSkills ==
    /\ fn = "skills"
    /\ \E tech_stack \in SkillStacks,
          required_skills \in SeqsUpTo(RequiredSkills, MaxRequired) \ {<<>>} :
         arg = [tech_stack |-> tech_stack, required_skills |-> required_skills]
    /\ ret = Pending
    /\ SessionInit

ApplySkills ==
    /\ fn = "skills"
    /\ ret = Pending
    /\ ret' = [matched_skills |->
                  IF IsNa(arg.tech_stack) THEN 0
                  ELSE matched_skills(Lower(arg.tech_stack.chars), arg.required_skills),
               returned |-> has_required_skills(arg.tech_stack, arg.required_skills)]
    /\ UNCHANGED <<fn, arg, sessionVars>>

NextSkills == ApplySkills
SpecSkills == InitSkills /\ [][NextSkills]_vars

\* The skill, lower-cased, is a substring of the lower-cased stack, or it is
\* one of the four skills with a variation and the stack holds the variation.
SkillMatches(skill, stack) ==
    LET sk == Lower(skill.chars)
        st == Lower(stack.chars)
    IN \/ Contains(st, sk)
       \/ sk = s_scikit_learn /\ (Contains(st, s_sklearn) \/ Contains(st, s_scikit))
       \/ sk = s_tensorflow /\ Contains(st, s_tensor)
       \/ sk = s_pytorch /\ Contains(st, s_torch)
       \/ sk = s_numpy /\ Contains(st, s_np)

\* C22: the matched count is the number of entries of the required list that
\* match the stack (directly or by a variation), each entry counting once, so
\* it never exceeds the length of the list; a null tech stack matches nothing
\* and does not pass.
C22_MatchedCount ==
    (fn = "skills" /\ ret # Pending) =>
        /\ ret.matched_skills <= Len(arg.required_skills)
        /\ IF IsNa(arg.tech_stack)
           THEN ret.matched_skills = 0 /\ ~ret.returned
           ELSE ret.matched_skills =
                    Cardinality({i \in 1..Len(arg.required_skills) :
                                    SkillMatches(arg.required_skills[i], arg.tech_stack)})

\* A skill that is in the stack and whose variation is in it too counts once;
\* a skill matched only by its variation counts; a skill not in it does not.
C22_Witness ==
    /\ fn = "skills"
    /\ ret # Pending
    /\ arg.tech_stack = Chars(s_stack_scikit_learn)
    /\ arg.required_skills = <<Chars(s_Scikit_Learn), Chars(s_TensorFlow), Chars(s_Scikit_Learn)>>
    /\ ret.matched_skills = 2

----------------------------------------------------------------------------
(* auto_pre_screen_candidates and the objects of its caller.  The function *)
(* writes to one table only: the assignment of the coerced column at line  *)
(* 33.  ret holds the caller's table and requirement record as they are    *)
(* after the calls made so far, and what each call returned.               *)

\* The assignment of line 33 done on the table the caller passed.
AssignedTableNoCopy(df) == "caller"

\* The table that line 33 assigns into: filtered_df, which line 26 bound to
\* df.copy().
AssignedTable(df) == "copy"

\* The caller's table after a call.
CallerTableAfter(df, jd_requirements) ==
    IF df = NoneValue \/ jd_requirements = NoneValue THEN df
    ELSE IF DfEmpty(df) THEN df
    ELSE LET min_exp == Get(jd_requirements.minimum_experience_years, Num(0))
         IN IF ~(IsNum(min_exp) \/ IsBool(min_exp)) THEN df
            ELSE IF ToNumeric(min_exp).num <= 0 THEN df
            ELSE IF "experience_years" \notin df.cols THEN df
            ELSE IF AssignedTable(df) = "caller"
            THEN [cols |-> df.cols,
                  rows |-> [i \in 1..Len(df.rows) |->
                              [df.rows[i] EXCEPT !.experience_years = ToNumeric(@)]]]
            ELSE df

PureSkillLists == {<<>>, <<Chars(s_Python)>>, <<Chars(s_Python), Chars(s_NumPy)>>}

InitPure ==
    /\ fn = "pure"
    /\ \E records \in SeqsUpTo(ScreenRecords, MaxRows),
          min_exp \in MinExpValues,
          skills \in PureSkillLists :
            arg = [df |-> DataFrame(records),
                   jd |-> [minimum_experience_years |-> min_exp,
                           required_technical_skills |-> List(skills)]]
    /\ ret = [df |-> arg.df, jd |-> arg.jd, outputs |-> <<>>]
    /\ SessionInit

\* One more call with the caller's objects as they now are; the function
\* reads the requirement record with .get and a slice only.
ApplyPure ==
    /\ fn = "pure"
    /\ Len(ret.outputs) < MaxCalls
    /\ ret' = [df |-> CallerTableAfter(ret.df, ret.jd),
               jd |-> ret.jd,
               outputs |-> Append(ret.outputs,
                                  auto_pre_screen_candidates(ret.df, ret.jd))]
    /\ UNCHANGED <<fn, arg, sessionVars>>

NextPure == ApplyPure
SpecPure == InitPure /\ [][NextPure]_vars

----------------------------------------------------------------------------
(* The screening summary.                                                  *)

SummaryPerStage ==
    /\ Len(ret.summary) = (IF ExperienceActive THEN 1 ELSE 0)
                            + (IF ArgSkills # <<>> THEN 1 ELSE 0)
    /\ ExperienceActive =>
          /\ ret.summary[1].stage = "experience"
          /\ ret.summary[1].before = Len(arg.df.rows)
    /\ ArgSkills # <<>> =>
          /\ ret.summary[Len(ret.summary)].stage = "skills"
          /\ ret.summary[Len(ret.summary)].after = Len(ret.df.rows)
    /\ (ExperienceActive /\ ArgSkills # <<>>) =>
          ret.summary[2].before = ret.summary[1].after
    /\ \A i \in 1..Len(ret.summary) : ret.summary[i].after <= ret.summary[i].before

\* C24: the summary has one line per filter stage that ran (minimum > 0 for
\* experience, a non-empty required list for skills) and none for a skipped
\* stage, experience before skills; each line carries that stage's after and
\* before counts, the skill stage starts from what the experience stage
\* kept, and no after count exceeds its before count.
C24_SummaryPerStage ==
    (Screened /\ ~DfEmpty(arg.df)) => SummaryPerStage

\* The same on the tables in which some record holds experience_years.
C24_SummaryPerStageWithColumn ==
    (Screened /\ ~DfEmpty(arg.df) /\ "experience_years" \in arg.df.cols) =>
        SummaryPerStage

----------------------------------------------------------------------------
(* One parse batch followed by one ranking pass, in a fresh session.  Two  *)
(* of the documents parse to the same name.                                *)

StructuredA2 == [name |-> Str("A"), email |-> Absent, phone |-> Absent,
                 experience_years |-> Num(7), tech_stack |-> Chars(s_stack_np)]

FlowFiles ==
    {[name |-> Str("scan.png"), text |-> <<>>, llm |-> LlmFailure],
     [name |-> Str("a.pdf"), text |-> <<"python">>,
      llm |-> LlmText(<<LB, Mem(StructuredA), RB>>)],
     [name |-> Str("a2.pdf"), text |-> <<"python", "aws">>,
      llm |-> LlmText(<<LB, Mem(StructuredA2), RB>>)],
     [name |-> Str("b.pdf"), text |-> <<"aws">>,
      llm |-> LlmText(<<Word, LB, Mem(StructuredB), RB>>)]}

RankedA2 == [rank |-> Num(1), name |-> Str("A"), match_percentage |-> Num(70000)]

FlowRankResponses ==
    {LlmText(<<Word>>), LlmText(ArrayOf(<<RankedA>>)),
     LlmText(ArrayOf(<<RankedB, RankedA>>)), LlmText(ArrayOf(<<RankedA2, RankedA>>))}

\* A requirement record that activates no filter.
FlowRequirements == [minimum_experience_years |-> Num(0),
                     required_technical_skills |-> List(<<>>)]

InitFlow ==
    /\ fn = "flow"
    /\ \E files \in SeqsUpTo(FlowFiles, MaxFiles) \ {<<>>},
          mask_pii_enabled \in BOOLEAN, llm \in FlowRankResponses,
          job_desc \in RankJobs :
         arg = [files |-> files, mask_pii_enabled |-> mask_pii_enabled,
                llm |-> llm, job_desc |-> job_desc]
    /\ ret = Pending
    /\ SessionInit

\* The upload handler's body (tabs.py lines 214-243) on the documents of arg.
ApplyFlowBatch ==
    /\ fn = "flow"
    /\ ret = Pending
    /\ \E out \in {ParseFiles(arg.files, arg.mask_pii_enabled, NoneParsed)} :
            /\ parsed_resumes' = out.parsed
            /\ resume_texts' = out.texts
            /\ candidates_df' = IF out.parsed # <<>> THEN DataFrame(out.parsed)
                                ELSE candidates_df
            /\ ret' = [stage |-> "parsed", requests |-> out.requests]
    /\ UNCHANGED <<fn, arg, matched_results, last_pass>>

\* The matching flow (tabs.py lines 553-695) on the table of the batch.
ApplyFlowRank ==
    /\ fn = "flow"
    /\ ret # Pending
    /\ ret.stage = "parsed"
    /\ candidates_df # NoneValue
    /\ \E screened \in {auto_pre_screen_candidates(candidates_df, FlowRequirements)} :
        \E ranking \in {RankPool(arg.llm, screened.df, arg.job_desc, resume_texts)} :
            /\ matched_results' = IF ranking.results # <<>>
                                  THEN List(ranking.results)
                                  ELSE matched_results
            /\ ret' = [stage |-> "ranked", requests |-> ret.requests,
                       results |-> ranking.results,
                       rank_requests |-> ranking.requests]
    /\ UNCHANGED <<fn, arg, parsed_resumes, resume_texts, candidates_df, last_pass>>

NextFlow == ApplyFlowBatch \/ ApplyFlowRank
SpecFlow == InitFlow /\ [][NextFlow]_vars

FlowFileNamed(name) == CHOOSE f \in FlowFiles : f.name = name

\* The records i < j of the batch carry the same name and no later record does.
Collide(i, j) ==
    /\ i < j
    /\ parsed_resumes[i].name = parsed_resumes[j].name
    /\ \A k \in (j + 1)..Len(parsed_resumes) :
          parsed_resumes[k].name # parsed_resumes[j].name

\* C25: when two documents of a batch parse to the same name the table
\* holds a row for each, the text stored under the name is the later
\* document's, and a ranking pass gives every result of that name the
\* semantic score of the later document's text.
C25_LaterTextWins ==
    (fn = "flow" /\ ret # Pending) =>
        \A i \in 1..Len(parsed_resumes), j \in 1..Len(parsed_resumes) :
            Collide(i, j) =>
                LET later == FlowFileNamed(parsed_resumes[j].filename).text
                IN /\ Len(TableRows) = Len(parsed_resumes)
                   /\ TableRows[i].filename = parsed_resumes[i].filename
                   /\ TableRows[j].filename = parsed_resumes[j].filename
                   /\ resume_texts[NameKey(parsed_resumes[j].name)] = later
                   /\ ret.stage = "ranked" =>
                        \A k \in 1..Len(ret.results) :
                            ret.results[k].name = parsed_resumes[j].name =>
                                ret.results[k].semantic_score =
                                    Num(calculate_semantic_score(later, arg.job_desc))

C25_Witness ==
    /\ fn = "flow"
    /\ ret # Pending
    /\ ret.stage = "ranked"
    /\ Filenames(parsed_resumes) = <<Str("a2.pdf"), Str("a.pdf")>>
    /\ Len(TableRows) = 2
    /\ arg.job_desc = <<"python", "aws">>
    /\ Len(ret.results) = 2
    /\ \A k \in 1..2 :
          /\ ret.results[k].name = Str("A")
          /\ ret.results[k].semantic_score =
                Num(calculate_semantic_score(<<"python">>, arg.job_desc))
          /\ ret.results[k].semantic_score #
                Num(calculate_semantic_score(<<"python", "aws">>, arg.job_desc))

----------------------------------------------------------------------------
(* The LLM requests of a parse batch.                                      *)

HasText(file) == file.text # <<>>

\* The names of the documents with text, in document order.
NamesWithText ==
    LET with == SelectSeq(arg.files, HasText)
    IN [i \in 1..Len(with) |-> with[i].name]

\* C26: the requests of a batch are, in document order, one request for each
\* document whose text is not empty: none for a document without text, and
\* no second request for a document whose request failed.
C26_OneRequestPerDocument ==
    BatchDone =>
        [i \in 1..Len(ret.requests) |-> ret.requests[i].filename] = NamesWithText

\* A document without text, then one whose request fails.
C26_Witness ==
    /\ BatchDone
    /\ Len(arg.files) = 2
    /\ arg.files[1].kind = "no_text"
    /\ arg.files[2].kind = "llm_failure"
    /\ Len(ret.requests) = 1
    /\ ret.requests[1].filename = Str("c.pdf")
    /\ parsed_resumes = <<>>

----------------------------------------------------------------------------
(* The table, the text store and the match results across the handlers of  *)
(* a session.                                                              *)

SessionFileNamed(name) == CHOOSE f \in SessionFiles : f.name = name

RowHasItsText(row) ==
    /\ NameKey(row.name) \in DOMAIN resume_texts
    /\ resume_texts[NameKey(row.name)] = SessionFileNamed(row.filename).text

\* C27: after any sequence of parse batches every row of the candidate table
\* has the original text of its document in the text store under its name.
C27_EveryRowHasText ==
    fn = "session" => \A i \in 1..Len(TableRows) : RowHasItsText(TableRows[i])

\* The same after a batch that produced a record.
C27_EveryRowHasTextUnlessStale ==
    (fn = "session" /\ parsed_resumes # <<>>) =>
        \A i \in 1..Len(TableRows) : RowHasItsText(TableRows[i])

TableNames == {NameKey(TableRows[i].name) : i \in 1..Len(TableRows)}

\* C28: after any interleaving of parse batches and ranking passes every
\* stored match result names a candidate of the current candidate table.
C28_ResultsOfCurrentTable ==
    fn = "session" =>
        \A k \in 1..Len(ShownRanking) : NameKey(ShownRanking[k].name) \in TableNames

----------------------------------------------------------------------------
(* Two sessions with masking enabled whose resumes differ only in the      *)
(* contact details: every LLM request each of them issues (structuring,    *)
(* ranking, question generation), the LLM answering both alike.            *)

EmailLexemes == {"bob@x.io", "bob@localhost"}
PhoneLexemes == {"555-123-4567", "+1 555-123-4567", "(555) 123-4567"}

\* Two contact details of the same kind.
ContactDetails == (EmailLexemes \X EmailLexemes) \cup (PhoneLexemes \X PhoneLexemes)

\* Pairs of resume texts that differ at most in the contact detail.
ContactPairs ==
    {<<<<p[1]>>, <<p[2]>>>> : p \in ContactDetails}
      \cup {<<<<"python", p[1]>>, <<"python", p[2]>>>> : p \in ContactDetails}

MaskedAnswer(email) ==
    [name |-> Str("A"), email |-> email, phone |-> NoneValue,
     experience_years |-> Num(5), tech_stack |-> Chars(s_stack_python)]

MaskedStructurerResponses ==
    {LlmFailure, LlmText(<<LB, Mem(MaskedAnswer(NoneValue)), RB>>),
     LlmText(<<LB, Mem(MaskedAnswer(Str(EMAIL_MASKED))), RB>>)}

\* The requests of one session: Parse All Resumes on one document with
\* masking enabled, a ranking pass on the resulting table, and interview
\* questions for each candidate of it.
SessionRequests(text, llm, rank_llm, job_desc) ==
    LET out == ParseFiles(<<[name |-> Str("cv.pdf"), text |-> text, llm |-> llm]>>,
                          TRUE, NoneParsed)
        df == DataFrame(out.parsed)
    IN [structuring |-> [i \in 1..Len(out.requests) |-> out.requests[i].prompt],
        ranking |-> IF out.parsed = <<>> THEN <<>>
                    ELSE RankPool(rank_llm, df, job_desc, out.texts).requests,
        questions |-> IF out.parsed = <<>> THEN <<>>
                      ELSE [i \in 1..Len(df.rows) |->
                              generate_interview_questions(
                                  LlmFailure, df.rows[i], job_desc).request]]

InitMasked ==
    /\ fn = "masked"
    /\ \E pair \in ContactPairs, llm \in MaskedStructurerResponses,
          rank_llm \in {LlmFailure, LlmText(ArrayOf(<<RankedA>>))} :
         arg = [left |-> pair[1], right |-> pair[2], llm |-> llm,
                rank_llm |-> rank_llm, job_desc |-> <<"python", "aws">>]
    /\ ret = Pending
    /\ SessionInit

ApplyMasked ==
    /\ fn = "masked"
    /\ ret = Pending
    /\ ret' = [left |-> SessionRequests(arg.left, arg.llm, arg.rank_llm, arg.job_desc),
               right |-> SessionRequests(arg.right, arg.llm, arg.rank_llm, arg.job_desc)]
    /\ UNCHANGED <<fn, arg, sessionVars>>

NextMasked == ApplyMasked
SpecMasked == InitMasked /\ [][NextMasked]_vars

\* C29: with masking enabled, two sessions that differ only in the contact
\* details of a resume send identical LLM requests.
C29_MaskedRequestsAlike ==
    (fn = "masked" /\ ret # Pending) => ret.left = ret.right

\* What does hold: the question requests are alike, and so are the
\* structuring requests unless a phone number is written "(555) 123-4567",
\* which the redaction pattern does not match.
C29_QuestionRequestsAlike ==
    (fn = "masked" /\ ret # Pending) =>
        /\ ret.left.questions = ret.right.questions
        /\ (\A i \in 1..Len(arg.left) :
                arg.left[i] # "(555) 123-4567" /\ arg.right[i] # "(555) 123-4567")
              => ret.left.structuring = ret.right.structuring

\* The ranking requests differ in the candidate's email alone.
C29_EmailInRankingRequest ==
    (fn = "masked" /\ ret # Pending /\ ret.left.ranking # <<>>) =>
        [ret.left.ranking[1] EXCEPT !.candidates[1].email = Absent]
            = [ret.right.ranking[1] EXCEPT !.candidates[1].email = Absent]

----------------------------------------------------------------------------
(* The pre-screener on the requirement records the LLM can return.         *)

\* C30: for every table and every requirement record
\* auto_pre_screen_candidates returns a (table, summary) pair; it never
\* raises.
C30_NeverRaises ==
    (fn = "screen" /\ ret # Pending) => ~IsRaised(ret)

\* It does return a pair whenever minimum_experience_years is a number or
\* missing and the table has a tech_stack column.
C30_ReturnsForNumericMinimum ==
    (fn = "screen" /\ ret # Pending /\ IsNum(ArgMinExp)
        /\ "tech_stack" \in arg.df.cols) => ~IsRaised(ret)

====
